---------------------------- MODULE Spec2Model ----------------------------
(***************************************************************************)
(* A model of io-handles' POSIX implementation (src/src/posish.rs): the    *)
(* thread/pipe bridge of ReadHandle and WriteHandle (piped_thread, bytes,  *)
(* read, write, flush, map_err, Drop) and the standard-stream constructors *)
(* that take the StdinLocker / StdoutLocker tokens.                        *)
(*                                                                         *)
(* Spec      one bridged (or fast-path) Handle, its pipe, its worker       *)
(*           thread and the caller-supplied stream behind it.              *)
(* FairSpec  Spec with the scheduling the threads get: a runnable worker   *)
(*           runs, and a foreground call that is inside the library        *)
(*           (blocked in join) continues when it can.                      *)
(* SpecStdio several Handles competing for the two standard-stream tokens. *)
(***************************************************************************)
EXTENDS Integers, Sequences, FiniteSets

(***************************************************************************)
(* Bounds of the model.                                                    *)
(***************************************************************************)
\* Longest byte sequence written to a WriteHandle / held by a read source.
MaxLen == 3
\* Largest buffer handed to one read or write call, and the largest piece
\* the worker's copy loop moves at once (its buffer, scaled down).
MaxChunk == 2
\* libc::PIPE_BUF, scaled down: what a pipe takes without blocking.
PIPE_BUF == 1
\* Handle slots of the standard-stream model.
NumHandles == 3

\* Capacity of an OS pipe: never below PIPE_BUF (pipe(7)).
PipeCapacity == PIPE_BUF + 1

\* How many fd numbers the OS may hand to a new pipe end.
MaxFds == 2

\* The numbers pipe() may return for the end the Handle's descriptor names:
\* whichever the process has free, a number closed before among them.
Fds == 3..(2 + MaxFds)

Byte == {0, 1}

Min(a, b) == IF a < b THEN a ELSE b

SeqsUpTo(n) == UNION {[1..k -> Byte] : k \in 0..n}

\* The non-empty buffers a caller passes to one write call.
Chunks == SeqsUpTo(MaxChunk) \ {<<>>}

IsPrefix(s, t) == Len(s) <= Len(t) /\ s = SubSeq(t, 1, Len(s))

Drop1(s, k) == SubSeq(s, k + 1, Len(s))

(***************************************************************************)
(* Errors.  ENOSPC / EIO come from the caller-supplied stream (a write or  *)
(* read of it, and its flush); EPIPE and EBADF come from the OS for the    *)
(* Handle's own descriptor; EMFILE from pipe() or thread creation;         *)
(* UnexpectedEof from read_exact.                                          *)
(***************************************************************************)
StreamErrors == {"ENOSPC", "EIO"}
Errors == StreamErrors \cup {"EPIPE", "EBADF", "EMFILE", "UnexpectedEof"}

VARIABLES
    handle,         \* "unbuilt" | "WriteHandle" | "ReadHandle"
    resources,      \* variant of Read/WriteResources: "none" | "PipedThread" | "PipeReader"
    piped_thread,   \* the Option inside PipedThread: "Some" | "None"
    descriptor,     \* what the ManuallyDrop<File> aliases: "none" | "open" | "dangling"
    pipeBuf,        \* bytes inside the OS pipe
    pipeReaderOpen, \* the pipe's read end is open
    pipeWriterOpen, \* the pipe's write end is open
    wpc,            \* worker thread: "none" | "copy_read" | "copy_write" | "flush" | "done"
    wbuf,           \* the copy loop's buffer: bytes read and not yet written
    wresult,        \* the worker's io::Result: "none" | "Ok" | an error
    threads,        \* worker threads spawned and not yet joined
    faulty,         \* the caller-supplied stream may fail
    sink,           \* bytes the boxed Write has accepted
    sinkFlushedLen, \* Len(sink) when the boxed Write was last flushed, -1 never
    source,         \* bytes the boxed Read has still to yield
    B,              \* the byte sequence the ReadHandle was constructed over
    got,            \* bytes the consumer has been handed
    eof,            \* a read on the Handle has returned 0
    need,           \* bytes read_exact has still to fill
    written,        \* bytes the Handle's writes have accepted
    fpc,            \* foreground: "idle" | a blocked call | "panicked" | "dropped" | "aborted"
    fop,            \* the foreground's current or last call
    fres,           \* its result: "none" | "pending" | "Ok" | an error | "panic"
    fsaw,           \* the error the descriptor call itself gave, "none" without
    joinSaw,        \* what join_handle.join() gave the current call, "none" without
    returned,       \* errors foreground calls have returned to the caller
    aborts,         \* <<call, error>>: panics that carried an error
    flushMarks,     \* Len(written) at each successful flush
    stray,          \* a call on a dangling descriptor reached a foreign open file
    raw_fd,         \* the fd number the Handle's descriptor holds, 0 before construction
    seenFd,         \* the number as_raw_fd has given the caller, 0 before
    hres,           \* standard-stream model: slot -> resource variant
    stdinLocked,    \* StdinLocker's process-wide state
    stdoutLocked,   \* StdoutLocker's process-wide state
    attempt,        \* the last standard-stream call: what it was, whether a live
                    \* Handle held a token it needed, its result, and the
                    \* streams a constructor has so far been refused for
    platform,       \* ownership model: the implementation built, "posish" | "winx"
    kind,           \* "none" | "ReadHandle" | "WriteHandle" | "ReadWriteHandle" | "dropped"
    ctor,           \* the constructor that built the Handle
    owned,          \* the OS objects the Handle's Resource holds
    read_descriptor,  \* the OS object ReadHandle.descriptor / read_descriptor names
    write_descriptor, \* the OS object WriteHandle.descriptor / write_descriptor names
    objects,        \* OS object -> "absent" | "open" | "closed"
    closes,         \* OS object -> how many times it has been closed
    io,             \* the last call on the Handle: op, descriptor used, object reached, result
    touched,        \* <<op, object>>: what the Handle's calls have read from / written to
    stored,         \* object -> the bytes writes through the Handle have put into it
    child_stdio,    \* the stdin, stdout and stderr the spawned child was started with
    depth,          \* nesting model: bridges stacked over the sink, 0 before construction
    nPc,            \* 0 -> the foreground's position, l -> that of the worker of bridge l
    nState,         \* l -> the Option in the PipedThread of the Handle of bridge l
    nPipe,          \* l -> bytes inside the pipe of bridge l
    nWriterOpen,    \* l -> the write end of that pipe is open
    nBuf,           \* l -> the copy buffer of the worker of bridge l
    nSink,          \* bytes the innermost boxed Write has accepted
    nSinkFlushedLen, \* Len(nSink) when it was last flushed, -1 never
    nWritten,       \* bytes the outermost Handle's writes have accepted
    nOp             \* the foreground's last completed call

handleVars == <<handle, resources, piped_thread, descriptor>>
pipeVars   == <<pipeBuf, pipeReaderOpen, pipeWriterOpen>>
workerVars == <<wpc, wbuf, wresult>>
sinkVars   == <<sink, sinkFlushedLen>>
readVars   == <<source, B, got, eof, need>>
fgVars     == <<fpc, fop, fres, fsaw, joinSaw>>
ghostVars  == <<returned, aborts, flushMarks, stray>>
fdVars     == <<raw_fd, seenFd>>
stdVars    == <<hres, stdinLocked, stdoutLocked, attempt>>
ownVars    == <<platform, kind, ctor, owned, read_descriptor, write_descriptor,
                objects, closes, io, touched, stored, child_stdio>>

bridgeVars == <<handleVars, pipeVars, workerVars, threads, faulty, sinkVars,
                readVars, written, fgVars, ghostVars, fdVars>>

nestVars   == <<depth, nPc, nState, nPipe, nWriterOpen, nBuf, nSink, nSinkFlushedLen,
                nWritten, nOp>>

vars == <<bridgeVars, stdVars, ownVars, nestVars, fdVars>>

NoAttempt == [op |-> "none", slot |-> 0, held |-> FALSE, res |-> "none", conflicts |-> {}]

StdIdle ==
    /\ hres = [h \in 1..NumHandles |-> "none"]
    /\ stdinLocked = FALSE
    /\ stdoutLocked = FALSE
    /\ attempt = NoAttempt

\* The OS objects of the ownership model, named as the constructors'
\* arguments and locals are; "foreign" is some other open file of the
\* process, which a closed descriptor number may come to name.
OsObjects == {"file", "tcp_stream", "unix_stream", "pipe_reader", "pipe_writer",
              "child", "child_stdout", "child_stderr", "child_stdin",
              "char_device", "stdin", "stdout", "dev_null"}

\* The process's standard streams are open from the start and stay open.
StdStreams == {"stdin", "stdout"}

\* The two implementations: posish.rs (cfg(not(windows))) and winx.rs.
Platforms == {"posish", "winx"}

NoIo == [op |-> "none", via |-> "none", obj |-> "none", saw |-> "none", res |-> "none"]

\* What a write can reach: the objects, and the foreign file.
Reachable == OsObjects \cup {"foreign"}

\* std::process::Stdio: inherit (Command's default for spawn), null, piped.
Stdio == {"inherit", "null", "piped"}

\* The Command the caller passes, with whatever it has configured.
Commands == [stdin : Stdio, stdout : Stdio, stderr : Stdio]

NoChild == [stdin |-> "none", stdout |-> "none", stderr |-> "none"]

OwnIdle ==
    /\ platform = "none"
    /\ kind = "none"
    /\ ctor = "none"
    /\ owned = {}
    /\ read_descriptor = "none"
    /\ write_descriptor = "none"
    /\ objects = [o \in OsObjects |-> IF o \in StdStreams THEN "open" ELSE "absent"]
    /\ closes = [o \in OsObjects |-> 0]
    /\ io = NoIo
    /\ touched = {}
    /\ stored = [o \in Reachable |-> <<>>]
    /\ child_stdio = NoChild

\* Deepest nesting of WriteHandle::piped_thread over WriteHandle::piped_thread.
MaxDepth == 2

Levels == 1..MaxDepth

NestIdle ==
    /\ depth = 0
    /\ nPc = [c \in 0..MaxDepth |-> IF c = 0 THEN "idle" ELSE "none"]
    /\ nState = [l \in Levels |-> "None"]
    /\ nPipe = [l \in Levels |-> <<>>]
    /\ nWriterOpen = [l \in Levels |-> FALSE]
    /\ nBuf = [l \in Levels |-> <<>>]
    /\ nSink = <<>>
    /\ nSinkFlushedLen = -1
    /\ nWritten = <<>>
    /\ nOp = "none"

BridgeIdle ==
    /\ handle = "unbuilt"
    /\ resources = "none"
    /\ piped_thread = "None"
    /\ descriptor = "none"
    /\ pipeBuf = <<>>
    /\ pipeReaderOpen = FALSE
    /\ pipeWriterOpen = FALSE
    /\ wpc = "none"
    /\ wbuf = <<>>
    /\ wresult = "none"
    /\ threads = 0
    /\ faulty = FALSE
    /\ sink = <<>>
    /\ sinkFlushedLen = -1
    /\ source = <<>>
    /\ B = <<>>
    /\ got = <<>>
    /\ eof = FALSE
    /\ need = 0
    /\ written = <<>>
    /\ fpc = "idle"
    /\ fop = "none"
    /\ fres = "none"
    /\ fsaw = "none"
    /\ joinSaw = "none"
    /\ returned = {}
    /\ aborts = {}
    /\ flushMarks = {}
    /\ stray = FALSE
    /\ raw_fd = 0
    /\ seenFd = 0

Init == BridgeIdle /\ StdIdle /\ OwnIdle /\ NestIdle

(***************************************************************************)
(* WriteHandle::piped_thread: pipe(), then spawn the worker that copies    *)
(* the pipe reader into the boxed Write.                                   *)
(***************************************************************************)
\* pipe() and thread::Builder::spawn succeeded and the Handle is built whole;
\* `joined` is 1 when flush has just joined the previous worker.
SpawnWriteBridge(joined) ==
    /\ pipeBuf' = <<>>
    /\ pipeReaderOpen' = TRUE
    /\ pipeWriterOpen' = TRUE
    /\ wpc' = "copy_read"
    /\ wbuf' = <<>>
    /\ wresult' = "none"
    /\ threads' = threads - joined + 1
    /\ handle' = "WriteHandle"
    /\ resources' = "PipedThread"
    /\ piped_thread' = "Some"
    /\ descriptor' = "open"
    /\ \E n \in Fds : raw_fd' = n

WriteHandle_piped_thread ==
    /\ handle = "unbuilt"
    /\ fop = "none"
    /\ fop' = "piped_thread"
    /\ \/ /\ SpawnWriteBridge(0)
          /\ faulty' \in BOOLEAN
          /\ fres' = "Ok"
          /\ UNCHANGED returned
       \/ \* pipe() or spawn failed: `?` returns the error, nothing is built
          /\ fres' = "EMFILE"
          /\ returned' = returned \cup {"EMFILE"}
          /\ UNCHANGED <<handleVars, pipeVars, workerVars, threads, faulty, raw_fd>>
    /\ UNCHANGED <<sinkVars, readVars, written, fpc, fsaw, joinSaw, aborts, flushMarks, stray, stdVars, ownVars, nestVars, seenFd>>

(***************************************************************************)
(* The write-direction worker (the closure of WriteHandle::piped_thread):  *)
(*   copy(&mut pipe_reader, &mut *boxed_write)?; boxed_write.flush()?;     *)
(*   Ok(boxed_write)                                                       *)
(* When the closure returns, pipe_reader is dropped: the read end closes.  *)
(***************************************************************************)
WorkerExit(result) ==
    /\ wpc' = "done"
    /\ wbuf' = <<>>
    /\ wresult' = result

\* As WriteWorker_copy_read, with an empty pipe read as the end of the
\* stream while the write end is still open (as a non-blocking read would).
WriteWorker_copy_read_EofOnEmpty ==
    /\ handle = "WriteHandle"
    /\ wpc = "copy_read"
    /\ \/ /\ pipeBuf # <<>>
          /\ \E k \in 1..Min(Len(pipeBuf), MaxChunk) :
                /\ wbuf' = SubSeq(pipeBuf, 1, k)
                /\ pipeBuf' = Drop1(pipeBuf, k)
          /\ wpc' = "copy_write"
       \/ /\ pipeBuf = <<>>
          /\ wpc' = "flush"
          /\ UNCHANGED <<wbuf, pipeBuf>>
    /\ UNCHANGED <<handleVars, pipeReaderOpen, pipeWriterOpen, wresult, threads, faulty,
                   sinkVars, readVars, written, fgVars, ghostVars, stdVars, ownVars, nestVars, fdVars>>

\* copy's read of the pipe: some bytes, or 0 once the pipe is drained and
\* every writer is closed; it blocks on an empty pipe with an open writer.
WriteWorker_copy_read ==
    /\ handle = "WriteHandle"
    /\ wpc = "copy_read"
    /\ \/ /\ pipeBuf # <<>>
          /\ \E k \in 1..Min(Len(pipeBuf), MaxChunk) :
                /\ wbuf' = SubSeq(pipeBuf, 1, k)
                /\ pipeBuf' = Drop1(pipeBuf, k)
          /\ wpc' = "copy_write"
       \/ /\ pipeBuf = <<>>
          /\ ~pipeWriterOpen
          /\ wpc' = "flush"
          /\ UNCHANGED <<wbuf, pipeBuf>>
    /\ UNCHANGED <<handleVars, pipeReaderOpen, pipeWriterOpen, wresult, threads, faulty,
                   sinkVars, readVars, written, fgVars, ghostVars, stdVars, ownVars, nestVars, fdVars>>

\* As WriteWorker_copy_write, with write in place of write_all: what one
\* write call of the boxed Write does not take is dropped.
WriteWorker_copy_write_Partial ==
    /\ handle = "WriteHandle"
    /\ wpc = "copy_write"
    /\ \/ /\ \E k \in 1..Len(wbuf) :
                /\ sink' = sink \o SubSeq(wbuf, 1, k)
                /\ wbuf' = <<>>
                /\ wpc' = "copy_read"
          /\ UNCHANGED <<wresult, pipeReaderOpen, pipeBuf>>
       \/ /\ faulty
          /\ WorkerExit("ENOSPC")
          /\ pipeReaderOpen' = FALSE
          /\ pipeBuf' = <<>>
          /\ UNCHANGED sink
    /\ UNCHANGED <<handleVars, pipeWriterOpen, threads, faulty, sinkFlushedLen,
                   readVars, written, fgVars, ghostVars, stdVars, ownVars, nestVars, fdVars>>

\* copy's write_all into the boxed Write, one write call per step.
WriteWorker_copy_write ==
    /\ handle = "WriteHandle"
    /\ wpc = "copy_write"
    /\ \/ /\ \E k \in 1..Len(wbuf) :
                /\ sink' = sink \o SubSeq(wbuf, 1, k)
                /\ wbuf' = Drop1(wbuf, k)
                /\ wpc' = IF k = Len(wbuf) THEN "copy_read" ELSE "copy_write"
          /\ UNCHANGED <<wresult, pipeReaderOpen, pipeBuf>>
       \/ /\ faulty
          /\ WorkerExit("ENOSPC")
          /\ pipeReaderOpen' = FALSE
          /\ pipeBuf' = <<>>
          /\ UNCHANGED sink
    /\ UNCHANGED <<handleVars, pipeWriterOpen, threads, faulty, sinkFlushedLen,
                   readVars, written, fgVars, ghostVars, stdVars, ownVars, nestVars, fdVars>>

\* As WriteWorker_flush, without the call of boxed_write.flush().
WriteWorker_flush_NoSinkFlush ==
    /\ handle = "WriteHandle"
    /\ wpc = "flush"
    /\ WorkerExit("Ok")
    /\ pipeReaderOpen' = FALSE
    /\ UNCHANGED <<handleVars, pipeBuf, pipeWriterOpen, threads, faulty, sinkVars,
                   readVars, written, fgVars, ghostVars, stdVars, ownVars, nestVars, fdVars>>

\* boxed_write.flush()?; Ok(boxed_write)
WriteWorker_flush ==
    /\ handle = "WriteHandle"
    /\ wpc = "flush"
    /\ \/ /\ WorkerExit("Ok")
          /\ sinkFlushedLen' = Len(sink)
       \/ /\ faulty
          /\ WorkerExit("EIO")
          /\ UNCHANGED sinkFlushedLen
    /\ pipeReaderOpen' = FALSE
    /\ UNCHANGED <<handleVars, pipeBuf, pipeWriterOpen, threads, faulty, sink,
                   readVars, written, fgVars, ghostVars, stdVars, ownVars, nestVars, fdVars>>

(***************************************************************************)
(* WriteHandle::map_err on a PipedThread resource.                         *)
(***************************************************************************)
\* take().unwrap(), drop(pipe_writer); then the foreground blocks in join.
\* On a consumed state the unwrap panics.
WriteHandle_map_err(e) ==
    /\ fsaw' = e
    /\ IF piped_thread = "Some"
       THEN /\ piped_thread' = "None"
            /\ pipeWriterOpen' = FALSE
            /\ descriptor' = "dangling"
            /\ fpc' = "map_err_join"
            /\ fres' = "pending"
       ELSE /\ fpc' = "panicked"
            /\ fres' = "panic"
            /\ UNCHANGED <<piped_thread, pipeWriterOpen, descriptor>>

\* As WriteHandle_map_err_join, returning the error e that map_err was given
\* (the `_ => e` arm) after the join.
WriteHandle_map_err_join_ReturnsE ==
    /\ handle = "WriteHandle"
    /\ fpc = "map_err_join"
    /\ wpc = "done"
    /\ joinSaw' = wresult
    /\ threads' = threads - 1
    /\ fres' = fsaw
    /\ returned' = returned \cup {fsaw}
    /\ fpc' = "idle"
    /\ UNCHANGED <<handleVars, pipeVars, workerVars, faulty, sinkVars, readVars,
                   written, fop, fsaw, aborts, flushMarks, stray, stdVars, ownVars, nestVars, fdVars>>

\* join_handle.join().unwrap().map(|_| ()).unwrap_err()
WriteHandle_map_err_join ==
    /\ handle = "WriteHandle"
    /\ fpc = "map_err_join"
    /\ wpc = "done"
    /\ joinSaw' = wresult
    /\ threads' = threads - 1
    /\ IF wresult \in Errors
       THEN /\ fres' = wresult
            /\ returned' = returned \cup {wresult}
            /\ fpc' = "idle"
       ELSE /\ fres' = "panic"
            /\ fpc' = "panicked"
            /\ UNCHANGED returned
    /\ UNCHANGED <<handleVars, pipeVars, workerVars, faulty, sinkVars, readVars,
                   written, fop, fsaw, aborts, flushMarks, stray, stdVars, ownVars, nestVars, fdVars>>

(***************************************************************************)
(* Write for WriteHandle: write.  (write_vectored, write_all and write_fmt *)
(* have the same shape: the descriptor call, map_err on its error.)        *)
(***************************************************************************)
WriteHandle_write ==
    /\ handle = "WriteHandle"
    /\ fpc = "idle"
    /\ fop' = "write"
    /\ joinSaw' = "none"
    /\ \/ \* the pipe takes some of the buffer
          /\ descriptor = "open"
          /\ pipeReaderOpen
          /\ \E bs \in Chunks :
                \E k \in 1..Min(Len(bs), PipeCapacity - Len(pipeBuf)) :
                    /\ Len(written) + k <= MaxLen
                    /\ pipeBuf' = pipeBuf \o SubSeq(bs, 1, k)
                    /\ written' = written \o SubSeq(bs, 1, k)
          /\ fres' = "Ok"
          /\ fsaw' = "none"
          /\ UNCHANGED <<piped_thread, pipeWriterOpen, descriptor, fpc, stray>>
       \/ \* the read end is closed: EPIPE
          /\ descriptor = "open"
          /\ ~pipeReaderOpen
          /\ WriteHandle_map_err("EPIPE")
          /\ UNCHANGED <<pipeBuf, written, stray>>
       \/ \* the descriptor's fd was closed: EBADF
          /\ descriptor = "dangling"
          /\ WriteHandle_map_err("EBADF")
          /\ UNCHANGED <<pipeBuf, written, stray>>
       \/ \* the closed fd's number was given to another open file of the
          \* process, which takes the bytes
          /\ descriptor = "dangling"
          /\ stray' = TRUE
          /\ fres' = "Ok"
          /\ fsaw' = "none"
          /\ UNCHANGED <<pipeBuf, written, piped_thread, pipeWriterOpen, descriptor, fpc>>
    /\ UNCHANGED <<handle, resources, pipeReaderOpen, workerVars, threads, faulty,
                   sinkVars, readVars, returned, aborts, flushMarks, stdVars, ownVars, nestVars, fdVars>>

(***************************************************************************)
(* Write for WriteHandle: flush.  self.descriptor.flush() is File::flush,  *)
(* which does nothing and returns Ok, so the Err arm is never taken.       *)
(***************************************************************************)
\* As WriteHandle_flush, with the join placed before drop(pipe_writer): the
\* foreground waits for the worker with the write end still open.
WriteHandle_flush_JoinsFirst ==
    /\ handle = "WriteHandle"
    /\ fpc = "idle"
    /\ resources = "PipedThread"
    /\ fop' = "flush"
    /\ joinSaw' = "none"
    /\ fsaw' = "none"
    /\ IF piped_thread = "Some"
       THEN /\ piped_thread' = "None"
            /\ fpc' = "flush_join"
            /\ fres' = "pending"
            /\ UNCHANGED <<pipeWriterOpen, descriptor>>
       ELSE /\ fpc' = "panicked"
            /\ fres' = "panic"
            /\ UNCHANGED <<piped_thread, pipeWriterOpen, descriptor>>
    /\ UNCHANGED <<handle, resources, pipeBuf, pipeReaderOpen, workerVars, threads,
                   faulty, sinkVars, readVars, written, ghostVars, stdVars, ownVars, nestVars, fdVars>>

\* take().unwrap(); pipe_writer.flush()?; drop(pipe_writer)
WriteHandle_flush ==
    /\ handle = "WriteHandle"
    /\ fpc = "idle"
    /\ resources = "PipedThread"
    /\ fop' = "flush"
    /\ joinSaw' = "none"
    /\ fsaw' = "none"
    /\ IF piped_thread = "Some"
       THEN /\ piped_thread' = "None"
            /\ pipeWriterOpen' = FALSE
            /\ descriptor' = "dangling"
            /\ fpc' = "flush_join"
            /\ fres' = "pending"
       ELSE /\ fpc' = "panicked"
            /\ fres' = "panic"
            /\ UNCHANGED <<piped_thread, pipeWriterOpen, descriptor>>
    /\ UNCHANGED <<handle, resources, pipeBuf, pipeReaderOpen, workerVars, threads,
                   faulty, sinkVars, readVars, written, ghostVars, stdVars, ownVars, nestVars, fdVars>>

\* As WriteHandle_flush_join, with the new bridge built without join(): the
\* old worker is left running beside the new one.
WriteHandle_flush_join_NoJoin ==
    /\ handle = "WriteHandle"
    /\ fpc = "flush_join"
    /\ joinSaw' = "Ok"
    /\ SpawnWriteBridge(0)
    /\ fpc' = "idle"
    /\ fres' = "Ok"
    /\ flushMarks' = flushMarks \cup {Len(written)}
    /\ UNCHANGED <<returned, aborts>>
    /\ UNCHANGED <<faulty, sinkVars, readVars, written, fop, fsaw, stray, stdVars, ownVars, nestVars, seenFd>>

\* let boxed_write = join_handle.join().unwrap().unwrap();
\* *self = Self::piped_thread(boxed_write)?;  Ok(())
WriteHandle_flush_join ==
    /\ handle = "WriteHandle"
    /\ fpc = "flush_join"
    /\ wpc = "done"
    /\ joinSaw' = wresult
    /\ \/ \* the worker handed the boxed Write back; a new bridge is built
          /\ wresult = "Ok"
          /\ SpawnWriteBridge(1)
          /\ fpc' = "idle"
          /\ fres' = "Ok"
          /\ flushMarks' = flushMarks \cup {Len(written)}
          /\ UNCHANGED <<returned, aborts>>
       \/ \* pipe() or spawn failed: `?` returns the error; the boxed Write
          \* is dropped and self keeps the consumed state
          /\ wresult = "Ok"
          /\ threads' = threads - 1
          /\ fpc' = "idle"
          /\ fres' = "EMFILE"
          /\ returned' = returned \cup {"EMFILE"}
          /\ UNCHANGED <<handleVars, pipeVars, workerVars, aborts, flushMarks, raw_fd>>
       \/ \* the worker ended with an error: the second unwrap panics
          /\ wresult \in Errors
          /\ threads' = threads - 1
          /\ fpc' = "panicked"
          /\ fres' = "panic"
          /\ aborts' = aborts \cup {<<"flush", wresult>>}
          /\ UNCHANGED <<handleVars, pipeVars, workerVars, returned, flushMarks, raw_fd>>
    /\ UNCHANGED <<faulty, sinkVars, readVars, written, fop, fsaw, stray, stdVars, ownVars, nestVars, seenFd>>

(***************************************************************************)
(* Drop for WriteResources.  A panicking call unwinds through the owner of *)
(* the Handle, which drops it.                                             *)
(***************************************************************************)
\* As WriteResources_drop, without drop(pipe_writer): the write end stays
\* open while the foreground joins.
WriteResources_drop_NoClose ==
    /\ handle = "WriteHandle"
    /\ fpc \in {"idle", "panicked"}
    /\ fop' = "drop"
    /\ joinSaw' = "none"
    /\ fsaw' = "none"
    /\ IF resources = "PipedThread" /\ piped_thread = "Some"
       THEN /\ piped_thread' = "None"
            /\ fpc' = "drop_join"
            /\ fres' = "pending"
            /\ UNCHANGED <<pipeWriterOpen, descriptor>>
       ELSE /\ fpc' = "dropped"
            /\ fres' = "Ok"
            /\ UNCHANGED <<piped_thread, pipeWriterOpen, descriptor>>
    /\ UNCHANGED <<handle, resources, pipeBuf, pipeReaderOpen, workerVars, threads,
                   faulty, sinkVars, readVars, written, ghostVars, stdVars, ownVars, nestVars, fdVars>>

\* if let Some((pipe_writer, join_handle)) = piped_thread.take() { drop(pipe_writer); ..
WriteResources_drop ==
    /\ handle = "WriteHandle"
    /\ fpc \in {"idle", "panicked"}
    /\ fop' = "drop"
    /\ joinSaw' = "none"
    /\ fsaw' = "none"
    /\ IF resources = "PipedThread" /\ piped_thread = "Some"
       THEN /\ piped_thread' = "None"
            /\ pipeWriterOpen' = FALSE
            /\ descriptor' = "dangling"
            /\ fpc' = "drop_join"
            /\ fres' = "pending"
       ELSE /\ fpc' = "dropped"
            /\ fres' = "Ok"
            /\ UNCHANGED <<piped_thread, pipeWriterOpen, descriptor>>
    /\ UNCHANGED <<handle, resources, pipeBuf, pipeReaderOpen, workerVars, threads,
                   faulty, sinkVars, readVars, written, ghostVars, stdVars, ownVars, nestVars, fdVars>>

\* As WriteResources_drop_join, with the JoinHandle dropped in place of
\* join(): the worker is detached and the drop returns at once.
WriteResources_drop_join_Detach ==
    /\ handle = "WriteHandle"
    /\ fpc = "drop_join"
    /\ joinSaw' = "Ok"
    /\ threads' = threads - 1
    /\ fpc' = "dropped"
    /\ fres' = "Ok"
    /\ UNCHANGED <<handleVars, pipeVars, workerVars, faulty, sinkVars, readVars,
                   written, fop, fsaw, returned, aborts, flushMarks, stray, stdVars, ownVars, nestVars, fdVars>>

\* join_handle.join().unwrap().unwrap();
WriteResources_drop_join ==
    /\ handle = "WriteHandle"
    /\ fpc = "drop_join"
    /\ wpc = "done"
    /\ joinSaw' = wresult
    /\ threads' = threads - 1
    /\ IF wresult = "Ok"
       THEN /\ fpc' = "dropped"
            /\ fres' = "Ok"
            /\ UNCHANGED aborts
       ELSE /\ fpc' = "aborted"
            /\ fres' = "panic"
            /\ aborts' = aborts \cup {<<"drop", wresult>>}
    /\ UNCHANGED <<handleVars, pipeVars, workerVars, faulty, sinkVars, readVars,
                   written, fop, fsaw, returned, flushMarks, stray, stdVars, ownVars, nestVars, fdVars>>

WriteNext ==
    \/ WriteHandle_piped_thread
    \/ WriteWorker_copy_read
    \/ WriteWorker_copy_write
    \/ WriteWorker_flush
    \/ WriteHandle_write
    \/ WriteHandle_map_err_join
    \/ WriteHandle_flush
    \/ WriteHandle_flush_join
    \/ WriteResources_drop
    \/ WriteResources_drop_join

(***************************************************************************)
(* ReadHandle::piped_thread and ReadHandle::bytes.                         *)
(***************************************************************************)
\* pipe(), then spawn the worker that copies the boxed Read into the pipe
\* writer.  b is what the boxed Read holds, f whether its reads may fail.
SpawnReadBridge(b, f) ==
    /\ pipeBuf' = <<>>
    /\ pipeReaderOpen' = TRUE
    /\ pipeWriterOpen' = TRUE
    /\ wpc' = "copy_read"
    /\ wbuf' = <<>>
    /\ wresult' = "none"
    /\ threads' = threads + 1
    /\ handle' = "ReadHandle"
    /\ resources' = "PipedThread"
    /\ piped_thread' = "Some"
    /\ descriptor' = "open"
    /\ source' = b
    /\ B' = b
    /\ faulty' = f
    /\ \E n \in Fds : raw_fd' = n

ReadHandle_piped_thread ==
    /\ handle = "unbuilt"
    /\ fop = "none"
    /\ fop' = "piped_thread"
    /\ \/ /\ \E b \in SeqsUpTo(MaxLen), f \in BOOLEAN : SpawnReadBridge(b, f)
          /\ fres' = "Ok"
          /\ UNCHANGED returned
       \/ /\ fres' = "EMFILE"
          /\ returned' = returned \cup {"EMFILE"}
          /\ UNCHANGED <<handleVars, pipeVars, workerVars, threads, faulty, source, B, raw_fd>>
    /\ UNCHANGED <<sinkVars, got, eof, need, written, fpc, fsaw, joinSaw, aborts,
                   flushMarks, stray, stdVars, ownVars, nestVars, seenFd>>

\* As posish_ReadHandle_bytes, with `<` in place of `<=`: a payload of
\* exactly PIPE_BUF bytes goes to the thread bridge.
posish_ReadHandle_bytes_BoundExcluded(b) ==
    IF Len(b) < PIPE_BUF
    THEN /\ pipeBuf' = b
         /\ pipeReaderOpen' = TRUE
         /\ pipeWriterOpen' = FALSE
         /\ handle' = "ReadHandle"
         /\ resources' = "PipeReader"
         /\ descriptor' = "open"
         /\ source' = <<>>
         /\ B' = b
         /\ \E n \in Fds : raw_fd' = n
         /\ UNCHANGED <<piped_thread, workerVars, threads, faulty>>
    ELSE SpawnReadBridge(b, FALSE)

\* posish.rs: if bytes.len() <= libc::PIPE_BUF: pipe(), write_all and flush of
\* the payload into the pipe writer, drop(pipe_writer), a PipeReader
\* resource; otherwise piped_thread over a Cursor.
posish_ReadHandle_bytes(b) ==
    IF Len(b) <= PIPE_BUF
    THEN /\ pipeBuf' = b
         /\ pipeReaderOpen' = TRUE
         /\ pipeWriterOpen' = FALSE
         /\ handle' = "ReadHandle"
         /\ resources' = "PipeReader"
         /\ descriptor' = "open"
         /\ source' = <<>>
         /\ B' = b
         /\ \E n \in Fds : raw_fd' = n
         /\ UNCHANGED <<piped_thread, workerVars, threads, faulty>>
    ELSE SpawnReadBridge(b, FALSE)

\* winx.rs: "For now, just launch a thread": piped_thread over a Cursor,
\* whatever the length.
winx_ReadHandle_bytes(b) == SpawnReadBridge(b, FALSE)

\* ReadHandle::bytes of the implementation p.
ReadHandle_bytes(p) ==
    /\ handle = "unbuilt"
    /\ fop = "none"
    /\ fop' = "bytes"
    /\ platform' = p
    /\ \/ /\ \E b \in SeqsUpTo(MaxLen) :
                IF p = "posish" THEN posish_ReadHandle_bytes(b)
                                ELSE winx_ReadHandle_bytes(b)
          /\ fres' = "Ok"
          /\ UNCHANGED returned
       \/ /\ fres' = "EMFILE"
          /\ returned' = returned \cup {"EMFILE"}
          /\ UNCHANGED <<handleVars, pipeVars, workerVars, threads, faulty, source, B, raw_fd>>
    /\ UNCHANGED <<sinkVars, got, eof, need, written, fpc, fsaw, joinSaw, aborts,
                   flushMarks, stray, stdVars, nestVars, seenFd>>
    /\ UNCHANGED <<kind, ctor, owned, read_descriptor, write_descriptor, objects,
                   closes, io, touched, stored, child_stdio>>

(***************************************************************************)
(* The read-direction worker (the closure of ReadHandle::piped_thread):    *)
(*   copy(&mut *boxed_read, &mut pipe_writer).map(|_size| ())              *)
(* When the closure returns, pipe_writer is dropped: the write end closes. *)
(***************************************************************************)
\* As ReadWorker_copy_read, with a single read in place of copy's loop: the
\* worker ends after the first piece it has moved.
ReadWorker_copy_read_Once ==
    /\ handle = "ReadHandle"
    /\ wpc = "copy_read"
    /\ \/ /\ source # <<>>
          /\ Len(source) = Len(B)
          /\ \E k \in 1..Min(Len(source), MaxChunk) :
                /\ wbuf' = SubSeq(source, 1, k)
                /\ source' = Drop1(source, k)
          /\ wpc' = "copy_write"
          /\ UNCHANGED <<wresult, pipeWriterOpen>>
       \/ /\ source = <<>> \/ Len(source) < Len(B)
          /\ WorkerExit("Ok")
          /\ pipeWriterOpen' = FALSE
          /\ UNCHANGED source
       \/ /\ faulty
          /\ WorkerExit("EIO")
          /\ pipeWriterOpen' = FALSE
          /\ UNCHANGED source
    /\ UNCHANGED <<handleVars, pipeBuf, pipeReaderOpen, threads, faulty, sinkVars,
                   B, got, eof, need, written, fgVars, ghostVars, stdVars, ownVars, nestVars, fdVars>>

\* As ReadWorker_copy_read, with the pipe writer kept open when copy returns
\* (as if the closure leaked it).
ReadWorker_copy_read_KeepsWriter ==
    /\ handle = "ReadHandle"
    /\ wpc = "copy_read"
    /\ \/ /\ source # <<>>
          /\ \E k \in 1..Min(Len(source), MaxChunk) :
                /\ wbuf' = SubSeq(source, 1, k)
                /\ source' = Drop1(source, k)
          /\ wpc' = "copy_write"
          /\ UNCHANGED <<wresult, pipeWriterOpen>>
       \/ /\ source = <<>>
          /\ WorkerExit("Ok")
          /\ UNCHANGED <<pipeWriterOpen, source>>
       \/ /\ faulty
          /\ WorkerExit("EIO")
          /\ pipeWriterOpen' = FALSE
          /\ UNCHANGED source
    /\ UNCHANGED <<handleVars, pipeBuf, pipeReaderOpen, threads, faulty, sinkVars,
                   B, got, eof, need, written, fgVars, ghostVars, stdVars, ownVars, nestVars, fdVars>>

\* copy's read of the boxed Read: some bytes, 0 at its end, or its error.
ReadWorker_copy_read ==
    /\ handle = "ReadHandle"
    /\ wpc = "copy_read"
    /\ \/ /\ source # <<>>
          /\ \E k \in 1..Min(Len(source), MaxChunk) :
                /\ wbuf' = SubSeq(source, 1, k)
                /\ source' = Drop1(source, k)
          /\ wpc' = "copy_write"
          /\ UNCHANGED <<wresult, pipeWriterOpen>>
       \/ /\ source = <<>>
          /\ WorkerExit("Ok")
          /\ pipeWriterOpen' = FALSE
          /\ UNCHANGED source
       \/ /\ faulty
          /\ WorkerExit("EIO")
          /\ pipeWriterOpen' = FALSE
          /\ UNCHANGED source
    /\ UNCHANGED <<handleVars, pipeBuf, pipeReaderOpen, threads, faulty, sinkVars,
                   B, got, eof, need, written, fgVars, ghostVars, stdVars, ownVars, nestVars, fdVars>>

\* As ReadWorker_copy_write, with write in place of write_all: what one
\* write call of the pipe does not take is dropped.
ReadWorker_copy_write_Partial ==
    /\ handle = "ReadHandle"
    /\ wpc = "copy_write"
    /\ \/ /\ pipeReaderOpen
          /\ \E k \in 1..Min(Len(wbuf), PipeCapacity - Len(pipeBuf)) :
                /\ pipeBuf' = pipeBuf \o SubSeq(wbuf, 1, k)
                /\ wbuf' = <<>>
                /\ wpc' = "copy_read"
          /\ UNCHANGED <<wresult, pipeWriterOpen>>
       \/ /\ ~pipeReaderOpen
          /\ WorkerExit("EPIPE")
          /\ pipeWriterOpen' = FALSE
          /\ UNCHANGED pipeBuf
    /\ UNCHANGED <<handleVars, pipeReaderOpen, threads, faulty, sinkVars, readVars,
                   written, fgVars, ghostVars, stdVars, ownVars, nestVars, fdVars>>

\* copy's write_all into the pipe writer, one write call per step: it blocks
\* on a full pipe and fails with EPIPE once the read end is closed.
ReadWorker_copy_write ==
    /\ handle = "ReadHandle"
    /\ wpc = "copy_write"
    /\ \/ /\ pipeReaderOpen
          /\ \E k \in 1..Min(Len(wbuf), PipeCapacity - Len(pipeBuf)) :
                /\ pipeBuf' = pipeBuf \o SubSeq(wbuf, 1, k)
                /\ wbuf' = Drop1(wbuf, k)
                /\ wpc' = IF k = Len(wbuf) THEN "copy_read" ELSE "copy_write"
          /\ UNCHANGED <<wresult, pipeWriterOpen>>
       \/ /\ ~pipeReaderOpen
          /\ WorkerExit("EPIPE")
          /\ pipeWriterOpen' = FALSE
          /\ UNCHANGED pipeBuf
    /\ UNCHANGED <<handleVars, pipeReaderOpen, threads, faulty, sinkVars, readVars,
                   written, fgVars, ghostVars, stdVars, ownVars, nestVars, fdVars>>

(***************************************************************************)
(* ReadHandle::map_err.                                                    *)
(***************************************************************************)
\* PipedThread: take().unwrap(), drop(pipe_reader), then the foreground blocks
\* in join; on a consumed state the unwrap panics.  Any other resource: e.
ReadHandle_map_err(e) ==
    /\ fsaw' = e
    /\ IF resources = "PipedThread"
       THEN IF piped_thread = "Some"
            THEN /\ piped_thread' = "None"
                 /\ pipeReaderOpen' = FALSE
                 /\ descriptor' = "dangling"
                 /\ fpc' = "map_err_join"
                 /\ fres' = "pending"
                 /\ UNCHANGED returned
            ELSE /\ fpc' = "panicked"
                 /\ fres' = "panic"
                 /\ UNCHANGED <<piped_thread, pipeReaderOpen, descriptor, returned>>
       ELSE /\ fpc' = "idle"
            /\ fres' = e
            /\ returned' = returned \cup {e}
            /\ UNCHANGED <<piped_thread, pipeReaderOpen, descriptor>>

\* join_handle.join().unwrap().unwrap_err()
ReadHandle_map_err_join ==
    /\ handle = "ReadHandle"
    /\ fpc = "map_err_join"
    /\ wpc = "done"
    /\ joinSaw' = wresult
    /\ threads' = threads - 1
    /\ IF wresult \in Errors
       THEN /\ fres' = wresult
            /\ returned' = returned \cup {wresult}
            /\ fpc' = "idle"
       ELSE /\ fres' = "panic"
            /\ fpc' = "panicked"
            /\ UNCHANGED returned
    /\ UNCHANGED <<handleVars, pipeVars, workerVars, faulty, sinkVars, readVars,
                   written, fop, fsaw, aborts, flushMarks, stray, stdVars, ownVars, nestVars, fdVars>>

(***************************************************************************)
(* Read for ReadHandle: read and read_exact.  (read_vectored, read_to_end  *)
(* and read_to_string have the same shape.)                                *)
(***************************************************************************)
\* One read of the descriptor with a buffer of n bytes.
ReadHandle_read ==
    /\ handle = "ReadHandle"
    /\ fpc = "idle"
    /\ fop' = "read"
    /\ joinSaw' = "none"
    /\ need' = 0
    /\ \/ /\ descriptor = "open"
          /\ pipeBuf # <<>>
          /\ \E n \in 1..MaxChunk :
                /\ got' = got \o SubSeq(pipeBuf, 1, Min(n, Len(pipeBuf)))
                /\ pipeBuf' = Drop1(pipeBuf, Min(n, Len(pipeBuf)))
          /\ fres' = "Ok"
          /\ fsaw' = "none"
          /\ UNCHANGED <<eof, piped_thread, pipeReaderOpen, descriptor, fpc, returned, stray>>
       \/ \* the pipe is drained and its write end closed: end of stream
          /\ descriptor = "open"
          /\ pipeBuf = <<>>
          /\ ~pipeWriterOpen
          /\ eof' = TRUE
          /\ fres' = "Ok"
          /\ fsaw' = "none"
          /\ UNCHANGED <<got, pipeBuf, piped_thread, pipeReaderOpen, descriptor, fpc,
                         returned, stray>>
       \/ \* the descriptor's fd was closed: EBADF
          /\ descriptor = "dangling"
          /\ ReadHandle_map_err("EBADF")
          /\ UNCHANGED <<got, eof, pipeBuf, stray>>
       \/ \* the closed fd's number now names another open file of the process
          /\ descriptor = "dangling"
          /\ stray' = TRUE
          /\ fres' = "Ok"
          /\ fsaw' = "none"
          /\ UNCHANGED <<got, eof, pipeBuf, piped_thread, pipeReaderOpen, descriptor,
                         fpc, returned>>
    /\ UNCHANGED <<handle, resources, pipeWriterOpen, workerVars, threads, faulty,
                   sinkVars, source, B, written, aborts, flushMarks, stdVars, ownVars, nestVars, fdVars>>

\* read_exact(buf) with Len(buf) = n: the call begins.
ReadHandle_read_exact ==
    /\ handle = "ReadHandle"
    /\ fpc = "idle"
    /\ fop' = "read_exact"
    /\ joinSaw' = "none"
    /\ fpc' = "read_exact"
    /\ fres' = "pending"
    /\ fsaw' = "none"
    /\ \E n \in 1..MaxChunk : need' = n
    /\ UNCHANGED <<handleVars, pipeVars, workerVars, threads, faulty, sinkVars,
                   source, B, got, eof, written, ghostVars, stdVars, ownVars, nestVars, fdVars>>

\* read_exact's loop: read until the buffer is full; a read of 0 before that
\* is ErrorKind::UnexpectedEof.
ReadHandle_read_exact_loop ==
    /\ handle = "ReadHandle"
    /\ fpc = "read_exact"
    /\ \/ /\ descriptor = "open"
          /\ pipeBuf # <<>>
          /\ LET k == Min(need, Len(pipeBuf)) IN
                /\ got' = got \o SubSeq(pipeBuf, 1, k)
                /\ pipeBuf' = Drop1(pipeBuf, k)
                /\ need' = need - k
                /\ fpc' = IF need = k THEN "idle" ELSE "read_exact"
                /\ fres' = IF need = k THEN "Ok" ELSE "pending"
          /\ UNCHANGED <<fsaw, piped_thread, pipeReaderOpen, descriptor, returned, stray>>
       \/ /\ descriptor = "open"
          /\ pipeBuf = <<>>
          /\ ~pipeWriterOpen
          /\ ReadHandle_map_err("UnexpectedEof")
          /\ UNCHANGED <<got, pipeBuf, need, stray>>
       \/ /\ descriptor = "dangling"
          /\ ReadHandle_map_err("EBADF")
          /\ UNCHANGED <<got, pipeBuf, need, stray>>
       \/ /\ descriptor = "dangling"
          /\ stray' = TRUE
          /\ need' = 0
          /\ fpc' = "idle"
          /\ fres' = "Ok"
          /\ UNCHANGED <<got, pipeBuf, fsaw, piped_thread, pipeReaderOpen, descriptor,
                         returned>>
    /\ UNCHANGED <<handle, resources, pipeWriterOpen, workerVars, threads, faulty,
                   sinkVars, source, B, eof, written, fop, joinSaw, aborts, flushMarks,
                   stdVars, ownVars, nestVars, fdVars>>

(***************************************************************************)
(* Drop for ReadResources.                                                 *)
(***************************************************************************)
\* PipedThread: take().unwrap(), which panics on a consumed state;
\* drop(pipe_reader).  Any other resource: its fields are dropped.
ReadResources_drop ==
    /\ handle = "ReadHandle"
    /\ fpc \in {"idle", "panicked"}
    /\ fop' = "drop"
    /\ joinSaw' = "none"
    /\ fsaw' = "none"
    /\ IF resources = "PipedThread"
       THEN IF piped_thread = "Some"
            THEN /\ piped_thread' = "None"
                 /\ pipeReaderOpen' = FALSE
                 /\ descriptor' = "dangling"
                 /\ fpc' = "drop_join"
                 /\ fres' = "pending"
            ELSE /\ fpc' = "aborted"
                 /\ fres' = "panic"
                 /\ UNCHANGED <<piped_thread, pipeReaderOpen, descriptor>>
       ELSE /\ pipeReaderOpen' = FALSE
            /\ descriptor' = "dangling"
            /\ fpc' = "dropped"
            /\ fres' = "Ok"
            /\ UNCHANGED piped_thread
    /\ UNCHANGED <<handle, resources, pipeBuf, pipeWriterOpen, workerVars, threads,
                   faulty, sinkVars, readVars, written, ghostVars, stdVars, ownVars, nestVars, fdVars>>

\* As ReadResources_drop_join, with the worker's result discarded
\* (`let _ = join_handle.join().unwrap();`).
ReadResources_drop_join_Silent ==
    /\ handle = "ReadHandle"
    /\ fpc = "drop_join"
    /\ wpc = "done"
    /\ joinSaw' = wresult
    /\ threads' = threads - 1
    /\ fpc' = "dropped"
    /\ fres' = "Ok"
    /\ UNCHANGED <<handleVars, pipeVars, workerVars, faulty, sinkVars, readVars,
                   written, fop, fsaw, returned, aborts, flushMarks, stray, stdVars, ownVars, nestVars, fdVars>>

\* join_handle.join().unwrap().unwrap();
ReadResources_drop_join ==
    /\ handle = "ReadHandle"
    /\ fpc = "drop_join"
    /\ wpc = "done"
    /\ joinSaw' = wresult
    /\ threads' = threads - 1
    /\ IF wresult = "Ok"
       THEN /\ fpc' = "dropped"
            /\ fres' = "Ok"
            /\ UNCHANGED aborts
       ELSE /\ fpc' = "aborted"
            /\ fres' = "panic"
            /\ aborts' = aborts \cup {<<"drop", wresult>>}
    /\ UNCHANGED <<handleVars, pipeVars, workerVars, faulty, sinkVars, readVars,
                   written, fop, fsaw, returned, flushMarks, stray, stdVars, ownVars, nestVars, fdVars>>

ReadNext ==
    \/ ReadHandle_piped_thread
    \/ \E p \in Platforms : ReadHandle_bytes(p)
    \/ ReadWorker_copy_read
    \/ ReadWorker_copy_write
    \/ ReadHandle_read
    \/ ReadHandle_read_exact
    \/ ReadHandle_read_exact_loop
    \/ ReadHandle_map_err_join
    \/ ReadResources_drop
    \/ ReadResources_drop_join

(***************************************************************************)
(* AsRawFd for ReadHandle and WriteHandle: self.descriptor.as_raw_fd(), the *)
(* number held by the ManuallyDrop<File>, whatever has become of the fd.   *)
(***************************************************************************)
AsRawFd_as_raw_fd ==
    /\ handle \in {"ReadHandle", "WriteHandle"}
    /\ fpc = "idle"
    /\ seenFd = 0
    /\ seenFd' = raw_fd
    /\ UNCHANGED <<handleVars, pipeVars, workerVars, threads, faulty, sinkVars,
                   readVars, written, fgVars, ghostVars, raw_fd, stdVars, ownVars, nestVars>>

Next == WriteNext \/ ReadNext \/ AsRawFd_as_raw_fd

Spec == Init /\ [][Next]_vars

(***************************************************************************)
(* Fairness.  The worker is an OS thread: while it can take a step it      *)
(* eventually does.  A foreground call that is inside the library, blocked *)
(* in join or in read_exact's loop, continues once it can.  Which calls    *)
(* the caller makes, and when, is left free.                               *)
(***************************************************************************)
WorkerNext ==
    \/ WriteWorker_copy_read
    \/ WriteWorker_copy_write
    \/ WriteWorker_flush
    \/ ReadWorker_copy_read
    \/ ReadWorker_copy_write

ForegroundContinue ==
    \/ WriteHandle_map_err_join
    \/ WriteHandle_flush_join
    \/ WriteResources_drop_join
    \/ ReadHandle_map_err_join
    \/ ReadHandle_read_exact_loop
    \/ ReadResources_drop_join

FairSpec == Spec /\ WF_vars(WorkerNext) /\ WF_vars(ForegroundContinue)

\* A consumer that keeps reading: a read that stays possible is made.
ReadFairSpec == FairSpec /\ WF_vars(ReadHandle_read)

(***************************************************************************)
(* Properties.                                                             *)
(***************************************************************************)
\* flush() on the bridged WriteHandle has just returned Ok(()).
FlushReturnedOk ==
    /\ handle = "WriteHandle"
    /\ fop = "flush"
    /\ fpc = "idle"
    /\ fres = "Ok"

\* C1: whenever flush() on a bridged WriteHandle returns success, every byte
\* the Handle's writes accepted before it is in the sink, the sink was
\* flushed after the last of them, and nothing is left in the pipe or in the
\* worker's buffer.
C1_FlushLeavesNothingInFlight ==
    FlushReturnedOk =>
        /\ IsPrefix(written, sink)
        /\ sinkFlushedLen = Len(sink)
        /\ pipeBuf = <<>>
        /\ wbuf = <<>>

\* A flush has returned success after MaxLen bytes, more than the pipe holds.
C1_Witness ==
    /\ FlushReturnedOk
    /\ Len(written) = MaxLen
    /\ MaxLen > PipeCapacity

\* C2: after each successful flush the sink holds exactly the bytes written
\* so far, in call order, also for the writes made after an earlier flush.
C2_SinkEqualsWritten ==
    FlushReturnedOk => sink = written

\* The third successful flush, each after further bytes were written.
C2_Witness ==
    /\ FlushReturnedOk
    /\ Cardinality(flushMarks) >= 3
    /\ Len(written) = MaxLen
    /\ sink = written

\* C3: a ReadHandle over B whose source does not fail, built by bytes() (on
\* the fast path or through the bridge) or by piped_thread, has handed the
\* consumer exactly B when a read returns end-of-stream, whatever the sizes
\* of the reads.
C3_ReadToEndYieldsB ==
    (handle = "ReadHandle" /\ ~faulty /\ eof) => got = B

\* End-of-stream was read through the bridge after all of a longest B.
C3_Witness ==
    /\ handle = "ReadHandle"
    /\ resources = "PipedThread"
    /\ ~faulty
    /\ eof
    /\ Len(B) = MaxLen
    /\ got = B

\* What the read-direction worker has taken from its source so far.
Submitted == SubSeq(B, 1, Len(B) - Len(source))

\* C4: in every reachable state the bytes the bridge has delivered (to the
\* sink, or to the consumer) are a prefix of the bytes submitted to it (by
\* the Handle's writes, or by the source).
C4_DeliveredIsPrefixOfSubmitted ==
    /\ IsPrefix(sink, written)
    /\ IsPrefix(got, Submitted)

\* Mid-stream: bytes in the sink, in the worker's buffer and in the pipe.
C4_Witness ==
    /\ handle = "WriteHandle"
    /\ sink # <<>>
    /\ wbuf # <<>>
    /\ pipeBuf # <<>>
    /\ Len(written) = MaxLen

\* C7: when a write on the bridged WriteHandle fails at the pipe while the
\* bridge is active, the pipe writer is closed and the bridge state taken,
\* the call blocks in join and does not panic, and when it returns the worker
\* has been joined and the error returned is the worker's, not the pipe's.
C7_WriteErrorIsWorkersError ==
    (handle = "WriteHandle" /\ fop = "write" /\ fsaw = "EPIPE") =>
        /\ piped_thread = "None"
        /\ ~pipeWriterOpen
        /\ fpc \in {"map_err_join", "idle"}
        /\ fpc = "idle" =>
              /\ threads = 0
              /\ wpc = "done"
              /\ joinSaw = wresult
              /\ fres = wresult
              /\ fres \in StreamErrors
              /\ fres # fsaw

\* A write saw EPIPE and returned the sink's error.
C7_Witness ==
    /\ handle = "WriteHandle"
    /\ fop = "write"
    /\ fsaw = "EPIPE"
    /\ fpc = "idle"
    /\ fres = "ENOSPC"

\* C8: if the worker of a bridged WriteHandle ended with an error, the
\* flush() that joins it returns that error to its caller.
C8_FlushReturnsWorkersError ==
    (handle = "WriteHandle" /\ fop = "flush" /\ joinSaw \in Errors) =>
        /\ fres = joinSaw
        /\ fpc = "idle"

\* C9: once the Handle is destroyed, an error its worker ended with has been
\* returned by a foreground call or is what the drop aborted with.
C9_WorkersErrorSurfaced ==
    (fpc \in {"dropped", "aborted"} /\ wresult \in Errors) =>
        \/ wresult \in returned
        \/ <<"drop", wresult>> \in aborts

\* What remains of C9 when a panic inside flush is counted as surfacing the
\* error: this holds, so the flush of C8 is the only way past C9.
C9_SurfacedCountingFlushPanic ==
    (fpc \in {"dropped", "aborted"} /\ wresult \in Errors) =>
        \/ wresult \in returned
        \/ <<"drop", wresult>> \in aborts
        \/ <<"flush", wresult>> \in aborts

\* The drop of a Handle has ended, by returning or by aborting.
DropEnded == fpc \in {"dropped", "aborted"}

\* C10: a drop that has closed its pipe endpoint and waits for the worker
\* always ends, and whenever a drop has ended no worker thread is left
\* running or unjoined.
C10_DropEndsAndJoins ==
    /\ (fpc = "drop_join") ~> DropEnded
    /\ [](DropEnded => (threads = 0 /\ wpc \in {"none", "done"}))

\* The foreground waits in drop's join while the worker is mid-copy, with
\* bytes in its buffer and in the pipe.
C10_Witness ==
    /\ fpc = "drop_join"
    /\ wpc = "copy_write"
    /\ wbuf # <<>>
    /\ pipeBuf # <<>>

\* C11: when a bridged WriteHandle over a sink that never fails has been
\* dropped, the sink holds every byte the Handle's writes accepted, in order,
\* and was flushed after the last of them; no flush() need have been called.
C11_DropDrainsAndFlushes ==
    (handle = "WriteHandle" /\ fpc = "dropped" /\ ~faulty /\ ~stray) =>
        /\ sink = written
        /\ sinkFlushedLen = Len(sink)
        /\ pipeBuf = <<>>
        /\ wbuf = <<>>

\* A Handle that took MaxLen bytes and was never flushed has been dropped,
\* the drop having joined the worker.
C11_Witness ==
    /\ handle = "WriteHandle"
    /\ fop = "drop"
    /\ fpc = "dropped"
    /\ joinSaw = "Ok"
    /\ ~faulty
    /\ flushMarks = {}
    /\ "EMFILE" \notin returned
    /\ Len(written) = MaxLen

\* The pipe endpoint the Handle's bridge state holds is closed.
EndpointClosed ==
    IF handle = "WriteHandle" THEN ~pipeWriterOpen ELSE ~pipeReaderOpen

\* C12: a drop that finds the bridge active takes the state and closes the
\* pipe endpoint before it waits; when it has ended the worker is joined, and
\* it has aborted with the worker's error exactly when the worker ended with
\* one (which no foreground call had returned), and returned otherwise.
C12_DropJoinsAndAbortsOnError ==
    (fop = "drop" /\ (fpc = "drop_join" \/ joinSaw # "none")) =>
        /\ piped_thread = "None"
        /\ EndpointClosed
        /\ fpc \in {"drop_join", "dropped", "aborted"}
        /\ fpc # "drop_join" =>
              /\ threads = 0
              /\ wpc = "done"
              /\ joinSaw = wresult
              /\ wresult = "Ok" => fpc = "dropped"
              /\ wresult \in Errors =>
                    /\ fpc = "aborted"
                    /\ <<"drop", wresult>> \in aborts
                    /\ wresult \notin returned

\* The drop of a ReadHandle joined a worker that had ended with the source's
\* error, and aborted.
C12_Witness ==
    /\ handle = "ReadHandle"
    /\ fop = "drop"
    /\ fpc = "aborted"
    /\ joinSaw = "EIO"
    /\ returned = {}

\* A call has panicked in take().unwrap(): it found the bridge state consumed
\* (the panics raised after a join carry what join returned).
TakeFoundConsumed == fres = "panic" /\ joinSaw = "none"

\* C16: no operation takes the bridge state while it is consumed: every
\* take().unwrap() of read, write, flush, map_err and drop finds Some.
C16_EveryTakeFindsActive == ~TakeFoundConsumed

\* C18: a bridged Handle never has more than one worker thread spawned and
\* not yet joined, and has exactly one while its bridge state is active; a
\* flush that waits for the old worker has spawned no replacement yet.
C18_OneWorkerPerBridge ==
    /\ threads \in {0, 1}
    /\ piped_thread = "Some" => (threads = 1 /\ wpc # "none")
    /\ threads = 0 => (wpc \in {"none", "done"} /\ piped_thread = "None")
    /\ fpc = "flush_join" => (threads = 1 /\ piped_thread = "None")

\* A third bridge, built by the second successful flush, with its worker
\* copying into the sink the earlier workers wrote to.
C18_Witness ==
    /\ handle = "WriteHandle"
    /\ Cardinality(flushMarks) >= 2
    /\ piped_thread = "Some"
    /\ threads = 1
    /\ wpc = "copy_write"
    /\ sink # <<>>

\* The consumer of the ReadHandle has stopped reading: the Handle is being
\* dropped, or a call on it has panicked or waits in map_err.
StoppedReading == fpc \notin {"idle", "read_exact"}

\* C19: on a bridged ReadHandle over a source that does not fail, a consumer
\* that keeps reading eventually has a read return 0; whenever a read has
\* returned 0 every byte of the source has been handed over, the worker has
\* ended normally and its pipe writer is closed.
C19_EofAfterAllBytes ==
    /\ [](/\ (handle = "ReadHandle" /\ ~faulty /\ eof) =>
                (got = B /\ source = <<>> /\ pipeBuf = <<>>)
          /\ (handle = "ReadHandle" /\ resources = "PipedThread" /\ wpc = "done") =>
                ~pipeWriterOpen)
    /\ (handle = "ReadHandle" /\ resources = "PipedThread" /\ ~faulty)
          ~> (eof \/ StoppedReading)

\* A read returned 0 on the bridge while the Handle is still in use, after
\* a longest source was read in more than one piece.
C19_Witness ==
    /\ handle = "ReadHandle"
    /\ resources = "PipedThread"
    /\ ~faulty
    /\ eof
    /\ fpc = "idle"
    /\ fop = "read"
    /\ wresult = "Ok"
    /\ Len(B) = MaxLen

\* The foreground is inside flush, map_err or drop, waiting in
\* join_handle.join().
InJoin == fpc \in {"map_err_join", "flush_join", "drop_join"}

\* C23: in flush, map_err and drop the foreground closes its pipe endpoint
\* before it joins the worker: while it waits in join, and at the step in
\* which a join returns, the bridge state is taken and the endpoint the
\* Handle held is closed.
C23_EndpointClosedBeforeJoin ==
    /\ [](InJoin => (piped_thread = "None" /\ EndpointClosed))
    /\ [][(joinSaw' # "none" /\ joinSaw = "none") =>
             (InJoin /\ piped_thread = "None" /\ EndpointClosed)]_vars

\* flush waits in join while the worker is still copying what the pipe held.
C23_Witness ==
    /\ handle = "WriteHandle"
    /\ fpc = "flush_join"
    /\ wpc = "copy_write"
    /\ pipeBuf # <<>>
    /\ ~pipeWriterOpen

FastPath ==
    /\ resources = "PipeReader"
    /\ pipeBuf = B
    /\ pipeReaderOpen
    /\ ~pipeWriterOpen
    /\ threads = 0
    /\ wpc = "none"
    /\ piped_thread = "None"

\* The Handle has been built by the thread bridge: its worker is spawned and
\* the bridge state holds the pipe reader and the JoinHandle.
ThreadBridge ==
    /\ resources = "PipedThread"
    /\ piped_thread = "Some"
    /\ threads = 1
    /\ wpc # "none"

\* The constructor named has just built a ReadHandle.
JustBuilt(c) == handle = "ReadHandle" /\ fop = c /\ fres = "Ok"

\* C25 (as stated): ReadHandle::bytes over a payload of at most PIPE_BUF
\* bytes takes the fast path, and over a longer one the thread bridge, as
\* does every piped_thread construction.
C25_ShortPayloadTakesFastPath ==
    /\ JustBuilt("bytes") => IF Len(B) <= PIPE_BUF THEN FastPath ELSE ThreadBridge
    /\ JustBuilt("piped_thread") => ThreadBridge

\* C25 (amended): on posish, ReadHandle::bytes over a payload of at most
\* PIPE_BUF bytes (the bound included) takes the fast path; on winx every
\* ReadHandle::bytes, and on both every longer payload and every
\* piped_thread construction, takes the thread bridge.
C25_ShortPayloadTakesFastPathOnPosish ==
    /\ JustBuilt("bytes") =>
          IF platform = "posish" /\ Len(B) <= PIPE_BUF THEN FastPath ELSE ThreadBridge
    /\ JustBuilt("piped_thread") => ThreadBridge

\* posish bytes() over a payload of exactly PIPE_BUF bytes has returned.
C25_Witness ==
    /\ JustBuilt("bytes")
    /\ platform = "posish"
    /\ Len(B) = PIPE_BUF
    /\ FastPath

\* C29: a read operation on a thread-bridged ReadHandle returns to its
\* caller and never panics; read_exact that meets the end of an error-free
\* source before its buffer is full returns the truncation error.
C29_ReadsReturnNeverAbort ==
    (handle = "ReadHandle" /\ resources = "PipedThread"
        /\ fop \in {"read", "read_exact"}) =>
        /\ fpc # "panicked"
        /\ (fsaw = "UnexpectedEof" /\ ~faulty /\ fpc = "idle") => fres = "UnexpectedEof"

\* The errors a worker can end with.
WorkerErrors == StreamErrors \cup {"EPIPE"}

\* C30: once a call on a bridged Handle has returned the worker's error, the
\* drop of the Handle completes: it does not abort, and it joins and closes
\* nothing again.
C30_DropAfterReturnedErrorCompletes ==
    (handle \in {"ReadHandle", "WriteHandle"} /\ resources = "PipedThread"
        /\ returned \cap WorkerErrors # {} /\ fop = "drop") =>
        /\ fpc = "dropped"
        /\ joinSaw = "none"
        /\ threads = 0

\* C31: the drop of a bridged ReadHandle over a source that never fails,
\* made while its bridge is active, completes: the worker it joins has ended
\* with Ok and the drop does not abort, also when the consumer had not read
\* to the end of the stream.
C31_EarlyDropDoesNotAbort ==
    (handle = "ReadHandle" /\ resources = "PipedThread" /\ ~faulty
        /\ fop = "drop" /\ joinSaw # "none") =>
        /\ joinSaw = "Ok"
        /\ fpc = "dropped"

\* C32: once flush() on a bridged WriteHandle has returned an error, the
\* Handle's descriptor names an open pipe endpoint, no worker is left
\* unjoined without a bridge state that holds its JoinHandle, and no later
\* write, flush or drop panics.
C32_FailedFlushLeavesHandleConsistent ==
    (handle = "WriteHandle" /\ "EMFILE" \in returned) =>
        /\ fpc = "idle" => descriptor = "open"
        /\ threads = 1 => (piped_thread = "Some" \/ InJoin)
        /\ fpc \notin {"panicked", "aborted"}

\* C33: while a bridged Handle is live and no call on it is under way, the
\* number as_raw_fd reports names an open pipe end the Handle holds; a number
\* obtained from a WriteHandle before a flush is, after the flush has
\* returned Ok, still the number of an open pipe end of the Handle.
C33_RawFdNamesOwnedOpenObject ==
    /\ (handle \in {"ReadHandle", "WriteHandle"} /\ fpc = "idle") =>
          (descriptor = "open" /\ raw_fd \in Fds)
    /\ (FlushReturnedOk /\ seenFd # 0) => (descriptor = "open" /\ seenFd = raw_fd)

(***************************************************************************)
(* The standard-stream Handles.  StdinLocker and StdoutLocker live in      *)
(* src/lockers.rs, which is not among the sources: they are modelled from  *)
(* the specification's exclusivity collaborator, "acquire(stream_id) ->    *)
(* Token | AlreadyHeld", whose Token releases exclusivity when destroyed.  *)
(***************************************************************************)
Slots == 1..NumHandles

\* StdinLocker::new() / StdoutLocker::new() succeed iff the token is free.
StdinLocker_new == ~stdinLocked
StdoutLocker_new == ~stdoutLocked

\* Drop of the two tokens.
StdinLocker_drop == stdinLocked' = FALSE
StdoutLocker_drop == stdoutLocked' = FALSE

\* The live Handles whose Resource holds the token of a stream.
StdinHolders == {h \in Slots : hres[h] \in {"Stdin", "StdinStdout"}}
StdoutHolders == {h \in Slots : hres[h] \in {"Stdout", "StdinStdout"}}

Refused(streams) == attempt.conflicts \cup streams

\* ReadHandle::stdin: StdinLocker::new()?, then the Handle around the token.
ReadHandle_stdin(h) ==
    /\ hres[h] = "none"
    /\ IF StdinLocker_new
       THEN /\ stdinLocked' = TRUE
            /\ hres' = [hres EXCEPT ![h] = "Stdin"]
            /\ attempt' = [op |-> "stdin", slot |-> h, held |-> StdinHolders # {},
                           res |-> "Ok", conflicts |-> attempt.conflicts]
       ELSE /\ attempt' = [op |-> "stdin", slot |-> h, held |-> StdinHolders # {},
                           res |-> "AlreadyInUse", conflicts |-> Refused({"stdin"})]
            /\ UNCHANGED <<hres, stdinLocked>>
    /\ UNCHANGED <<stdoutLocked, bridgeVars, ownVars, nestVars>>

\* WriteHandle::stdout: StdoutLocker::new()?, then the Handle around the token.
WriteHandle_stdout(h) ==
    /\ hres[h] = "none"
    /\ IF StdoutLocker_new
       THEN /\ stdoutLocked' = TRUE
            /\ hres' = [hres EXCEPT ![h] = "Stdout"]
            /\ attempt' = [op |-> "stdout", slot |-> h, held |-> StdoutHolders # {},
                           res |-> "Ok", conflicts |-> attempt.conflicts]
       ELSE /\ attempt' = [op |-> "stdout", slot |-> h, held |-> StdoutHolders # {},
                           res |-> "AlreadyInUse", conflicts |-> Refused({"stdout"})]
            /\ UNCHANGED <<hres, stdoutLocked>>
    /\ UNCHANGED <<stdinLocked, bridgeVars, ownVars, nestVars>>

\* As ReadWriteHandle_stdin_stdout, with the result of StdoutLocker::new()
\* not checked.
ReadWriteHandle_stdin_stdout_Unchecked(h) ==
    /\ hres[h] = "none"
    /\ IF StdinLocker_new
       THEN /\ stdinLocked' = TRUE
            /\ stdoutLocked' = TRUE
            /\ hres' = [hres EXCEPT ![h] = "StdinStdout"]
            /\ attempt' = [op |-> "stdin_stdout", slot |-> h,
                           held |-> StdinHolders \cup StdoutHolders # {},
                           res |-> "Ok", conflicts |-> attempt.conflicts]
       ELSE /\ attempt' = [op |-> "stdin_stdout", slot |-> h,
                           held |-> StdinHolders \cup StdoutHolders # {},
                           res |-> "AlreadyInUse", conflicts |-> Refused({"stdin"})]
            /\ UNCHANGED <<hres, stdinLocked, stdoutLocked>>
    /\ UNCHANGED <<bridgeVars, ownVars, nestVars>>

\* As ReadWriteHandle_stdin_stdout, with the stdin_locker not dropped when
\* the second `?` returns (as if it had been leaked before the call of
\* StdoutLocker::new).
ReadWriteHandle_stdin_stdout_KeepsStdin(h) ==
    /\ hres[h] = "none"
    /\ IF StdinLocker_new
       THEN IF StdoutLocker_new
            THEN /\ stdinLocked' = TRUE
                 /\ stdoutLocked' = TRUE
                 /\ hres' = [hres EXCEPT ![h] = "StdinStdout"]
                 /\ attempt' = [op |-> "stdin_stdout", slot |-> h,
                                held |-> StdinHolders \cup StdoutHolders # {},
                                res |-> "Ok", conflicts |-> attempt.conflicts]
            ELSE /\ stdinLocked' = TRUE
                 /\ attempt' = [op |-> "stdin_stdout", slot |-> h,
                                held |-> StdinHolders \cup StdoutHolders # {},
                                res |-> "AlreadyInUse", conflicts |-> Refused({"stdout"})]
                 /\ UNCHANGED <<hres, stdoutLocked>>
       ELSE /\ attempt' = [op |-> "stdin_stdout", slot |-> h,
                           held |-> StdinHolders \cup StdoutHolders # {},
                           res |-> "AlreadyInUse", conflicts |-> Refused({"stdin"})]
            /\ UNCHANGED <<hres, stdinLocked, stdoutLocked>>
    /\ UNCHANGED <<bridgeVars, ownVars, nestVars>>

\* ReadWriteHandle::stdin_stdout: StdinLocker::new()?, StdoutLocker::new()?.
\* When the second `?` returns, the stdin_locker local is dropped.
ReadWriteHandle_stdin_stdout(h) ==
    /\ hres[h] = "none"
    /\ IF StdinLocker_new
       THEN IF StdoutLocker_new
            THEN /\ stdinLocked' = TRUE
                 /\ stdoutLocked' = TRUE
                 /\ hres' = [hres EXCEPT ![h] = "StdinStdout"]
                 /\ attempt' = [op |-> "stdin_stdout", slot |-> h,
                                held |-> StdinHolders \cup StdoutHolders # {},
                                res |-> "Ok", conflicts |-> attempt.conflicts]
            ELSE /\ StdinLocker_drop
                 /\ attempt' = [op |-> "stdin_stdout", slot |-> h,
                                held |-> StdinHolders \cup StdoutHolders # {},
                                res |-> "AlreadyInUse", conflicts |-> Refused({"stdout"})]
                 /\ UNCHANGED <<hres, stdoutLocked>>
       ELSE /\ attempt' = [op |-> "stdin_stdout", slot |-> h,
                           held |-> StdinHolders \cup StdoutHolders # {},
                           res |-> "AlreadyInUse", conflicts |-> Refused({"stdin"})]
            /\ UNCHANGED <<hres, stdinLocked, stdoutLocked>>
    /\ UNCHANGED <<bridgeVars, ownVars, nestVars>>

\* As StdHandle_drop, with the Resource never dropped (as if it were held in
\* a ManuallyDrop like the descriptor): the tokens stay taken.
StdHandle_drop_Leak(h) ==
    /\ hres[h] # "none"
    /\ hres' = [hres EXCEPT ![h] = "none"]
    /\ attempt' = [op |-> "drop", slot |-> h, held |-> FALSE, res |-> "Ok",
                   conflicts |-> attempt.conflicts]
    /\ UNCHANGED <<stdinLocked, stdoutLocked, bridgeVars, ownVars, nestVars>>

\* Dropping a Handle drops its Resource, and with it the token(s) it owns.
StdHandle_drop(h) ==
    /\ hres[h] # "none"
    /\ hres' = [hres EXCEPT ![h] = "none"]
    /\ IF hres[h] \in {"Stdin", "StdinStdout"} THEN StdinLocker_drop ELSE UNCHANGED stdinLocked
    /\ IF hres[h] \in {"Stdout", "StdinStdout"} THEN StdoutLocker_drop ELSE UNCHANGED stdoutLocked
    /\ attempt' = [op |-> "drop", slot |-> h, held |-> FALSE, res |-> "Ok",
                   conflicts |-> attempt.conflicts]
    /\ UNCHANGED <<bridgeVars, ownVars, nestVars>>

StdioNext ==
    \E h \in Slots :
        \/ ReadHandle_stdin(h)
        \/ WriteHandle_stdout(h)
        \/ ReadWriteHandle_stdin_stdout(h)
        \/ StdHandle_drop(h)

SpecStdio == Init /\ [][StdioNext]_vars

\* C5: in every reachable state at most one live Handle holds the
\* standard-input token and at most one holds the standard-output token,
\* counting ReadHandle::stdin, WriteHandle::stdout and
\* ReadWriteHandle::stdin_stdout together.
C5_OneHolderPerStream ==
    /\ Cardinality(StdinHolders) <= 1
    /\ Cardinality(StdoutHolders) <= 1

\* Both tokens are held, by two Handles, and stdin_stdout was just refused.
C5_Witness ==
    /\ attempt.op = "stdin_stdout"
    /\ attempt.res = "AlreadyInUse"
    /\ \E h1, h2 \in Slots : h1 # h2 /\ hres[h1] = "Stdin" /\ hres[h2] = "Stdout"

Constructors == {"stdin", "stdout", "stdin_stdout"}

\* C6: a standard-stream constructor called while a live Handle holds a token
\* it needs returns an error, and otherwise succeeds; it is a single step
\* that can always be taken (it never waits); and a token no live Handle
\* holds is free, so that construction succeeds again once the holder is
\* dropped.
C6_ConflictFailsAtOnce ==
    /\ attempt.op \in Constructors =>
          (attempt.res = "AlreadyInUse" <=> attempt.held)
    /\ attempt.op \in Constructors => attempt.res \in {"Ok", "AlreadyInUse"}
    /\ StdinHolders = {} => ~stdinLocked
    /\ StdoutHolders = {} => ~stdoutLocked
    /\ \A h \in Slots :
          hres[h] = "none" =>
              /\ ENABLED ReadHandle_stdin(h)
              /\ ENABLED WriteHandle_stdout(h)
              /\ ENABLED ReadWriteHandle_stdin_stdout(h)

\* ReadHandle::stdin succeeded after an earlier call was refused for stdin.
C6_Witness ==
    /\ attempt.op = "stdin"
    /\ attempt.res = "Ok"
    /\ "stdin" \in attempt.conflicts

\* C34: when ReadWriteHandle::stdin_stdout has failed, the call holds
\* neither token: each token is taken exactly when a live Handle holds it,
\* and the slot has no Handle; a ReadHandle::stdin called while no live
\* Handle holds the standard-input token succeeds.
C34_FailedStdinStdoutHoldsNothing ==
    /\ []((attempt.op = "stdin_stdout" /\ attempt.res = "AlreadyInUse") =>
            /\ hres[attempt.slot] = "none"
            /\ stdinLocked <=> StdinHolders # {}
            /\ stdoutLocked <=> StdoutHolders # {})
    /\ [][(attempt'.op = "stdin" /\ attempt' # attempt /\ StdinHolders = {}) =>
             attempt'.res = "Ok"]_vars

\* ReadHandle::stdin succeeded right after stdin_stdout was refused for
\* standard output alone, which a live WriteHandle still holds.
C34_Witness ==
    /\ attempt.op = "stdin"
    /\ attempt.res = "Ok"
    /\ attempt.conflicts = {"stdout"}
    /\ StdoutHolders # {}

(***************************************************************************)
(* The Descriptor / Resource pair of the Handles that are not thread       *)
(* bridges: one Handle, the OS objects its constructor was given or made,  *)
(* the object each descriptor names, and what the Resource holds.  An      *)
(* object is closed when the value that owns it is dropped; a descriptor   *)
(* is a ManuallyDrop<File> (winx: a Descriptor of ManuallyDrop fields) and *)
(* is never dropped.                                                       *)
(***************************************************************************)
\* Constructor argument -> variant of ReadResources that stores it.
ReadOwned ==
    [file |-> "File", tcp_stream |-> "TcpStream", unix_stream |-> "UnixStream",
     pipe_reader |-> "PipeReader", child_stdout |-> "ChildStdout",
     child_stderr |-> "ChildStderr"]

\* Constructor argument -> variant of WriteResources that stores it.
WriteOwned ==
    [file |-> "File", tcp_stream |-> "TcpStream", unix_stream |-> "UnixStream",
     pipe_writer |-> "PipeWriter", child_stdin |-> "ChildStdin"]

\* Constructor argument -> variant of ReadWriteResources that stores it, for
\* the constructors whose two descriptors name one object.
ReadWriteOwned ==
    [char_device |-> "CharDevice", tcp_stream |-> "TcpStream",
     unix_stream |-> "UnixStream"]

CommandConstructors == {"read_from_command", "write_to_command", "interact_with_command"}

\* read_from_command: command.stdin(Stdio::null()); command.stdout(Stdio::piped());
read_from_command_stdio(command) ==
    [command EXCEPT !.stdin = "null", !.stdout = "piped"]

\* write_to_command: command.stdin(Stdio::piped()); command.stdout(Stdio::null());
write_to_command_stdio(command) ==
    [command EXCEPT !.stdin = "piped", !.stdout = "null"]

\* interact_with_command: command.stdin(Stdio::piped()); command.stdout(Stdio::piped());
interact_with_command_stdio(command) ==
    [command EXCEPT !.stdin = "piped", !.stdout = "piped"]

\* The stdio the constructor c has set on the caller's Command when it
\* calls command.spawn().
Configured(c, command) ==
    CASE c = "read_from_command" -> read_from_command_stdio(command)
      [] c = "write_to_command" -> write_to_command_stdio(command)
      [] c = "interact_with_command" -> interact_with_command_stdio(command)

\* The constructor returns a Handle: `keep` are the objects moved into the
\* Resource, `early` the objects of locals that go out of scope at the
\* return and are closed there, rd and wd what the raw fds name.
Built(p, k, c, keep, early, rd, wd) ==
    /\ kind = "none"
    /\ platform' = p
    /\ kind' = k
    /\ ctor' = c
    /\ owned' = keep
    /\ read_descriptor' = rd
    /\ write_descriptor' = wd
    /\ objects' = [o \in OsObjects |->
                      IF o \in keep \cup StdStreams THEN "open"
                      ELSE IF o \in early THEN "closed" ELSE "absent"]
    /\ closes' = [o \in OsObjects |-> IF o \in early THEN 1 ELSE 0]
    /\ io' = [op |-> c, via |-> "none", obj |-> "none", saw |-> "Ok", res |-> "Ok"]
    /\ touched' = {}
    /\ stored' = [o \in Reachable |-> <<>>]
    /\ IF c \in CommandConstructors
       THEN \E command \in Commands : child_stdio' = Configured(c, command)
       ELSE child_stdio' = NoChild

\* command.spawn()? returned the error: no Handle.
SpawnFailed(c) ==
    /\ kind = "none"
    /\ io' = [op |-> c, via |-> "none", obj |-> "none", saw |-> "ENOENT", res |-> "ENOENT"]
    /\ UNCHANGED <<platform, kind, ctor, owned, read_descriptor, write_descriptor,
                   objects, closes, touched, stored, child_stdio>>

\* As ReadHandle_owned, with the argument not stored: it is dropped when the
\* constructor returns.
ReadHandle_owned_DropsArgument(p, o) ==
    /\ o \in DOMAIN ReadOwned
    /\ o = "unix_stream" => p = "posish"
    /\ Built(p, "ReadHandle", o, {}, {o}, o, "none")
    /\ UNCHANGED <<bridgeVars, stdVars, nestVars>>

\* ReadHandle::file, tcp_stream, unix_stream, pipe_reader, child_stdout,
\* child_stderr: the raw fd of the argument, the argument into the Resource.
ReadHandle_owned(p, o) ==
    /\ o \in DOMAIN ReadOwned
    /\ o = "unix_stream" => p = "posish"
    /\ Built(p, "ReadHandle", o, {o}, {}, o, "none")
    /\ UNCHANGED <<bridgeVars, stdVars, nestVars>>

\* ReadHandle::stdin: the descriptor is the raw fd of the token.
ReadHandle_stdin_fd(p) ==
    /\ StdinLocker_new
    /\ stdinLocked' = TRUE
    /\ Built(p, "ReadHandle", "stdin", {"stdin"}, {}, "stdin", "none")
    /\ UNCHANGED <<bridgeVars, hres, stdoutLocked, attempt, nestVars>>

\* ReadHandle::read_from_command: child.stdout.take().unwrap() moves the
\* ChildStdout into the local child_stdout, which is dropped at the return;
\* the Resource is Child(child).
ReadHandle_read_from_command(p) ==
    /\ \/ Built(p, "ReadHandle", "read_from_command", {"child"}, {"child_stdout"},
                "child_stdout", "none")
       \/ SpawnFailed("read_from_command")
    /\ UNCHANGED <<bridgeVars, stdVars, nestVars>>

\* WriteHandle::file, tcp_stream, unix_stream, pipe_writer, child_stdin.
WriteHandle_owned(p, o) ==
    /\ o \in DOMAIN WriteOwned
    /\ o = "unix_stream" => p = "posish"
    /\ Built(p, "WriteHandle", o, {o}, {}, "none", o)
    /\ UNCHANGED <<bridgeVars, stdVars, nestVars>>

\* File::create(..)? returned the error: no Handle.
CreateFailed(c) ==
    /\ kind = "none"
    /\ io' = [op |-> c, via |-> "none", obj |-> "none", saw |-> "EMFILE", res |-> "EMFILE"]
    /\ UNCHANGED <<platform, kind, ctor, owned, read_descriptor, write_descriptor,
                   objects, closes, touched, stored, child_stdio>>

\* As WriteHandle_null, with a path that names a regular file.
WriteHandle_null_RegularFile(p) ==
    /\ \/ Built(p, "WriteHandle", "null", {"file"}, {}, "none", "file")
       \/ CreateFailed("null")
    /\ UNCHANGED <<bridgeVars, stdVars, nestVars>>

\* WriteHandle::null: Ok(Self::file(File::create("/dev/null")?)), on winx
\* File::create("NUL").
WriteHandle_null(p) ==
    /\ \/ Built(p, "WriteHandle", "null", {"dev_null"}, {}, "none", "dev_null")
       \/ CreateFailed("null")
    /\ UNCHANGED <<bridgeVars, stdVars, nestVars>>

\* WriteHandle::stdout.
WriteHandle_stdout_fd(p) ==
    /\ StdoutLocker_new
    /\ stdoutLocked' = TRUE
    /\ Built(p, "WriteHandle", "stdout", {"stdout"}, {}, "none", "stdout")
    /\ UNCHANGED <<bridgeVars, hres, stdinLocked, attempt, nestVars>>

\* WriteHandle::write_to_command: child.stdin.take().unwrap() into a local.
WriteHandle_write_to_command(p) ==
    /\ \/ Built(p, "WriteHandle", "write_to_command", {"child"}, {"child_stdin"},
                "none", "child_stdin")
       \/ SpawnFailed("write_to_command")
    /\ UNCHANGED <<bridgeVars, stdVars, nestVars>>

\* ReadWriteHandle::char_device, tcp_stream, unix_stream: both descriptors
\* are the raw fd of the one argument.
ReadWriteHandle_owned(p, o) ==
    /\ o \in DOMAIN ReadWriteOwned
    /\ o = "unix_stream" => p = "posish"
    /\ Built(p, "ReadWriteHandle", o, {o}, {}, o, o)
    /\ UNCHANGED <<bridgeVars, stdVars, nestVars>>

\* ReadWriteHandle::stdin_stdout.
ReadWriteHandle_stdin_stdout_fds(p) ==
    /\ StdinLocker_new
    /\ StdoutLocker_new
    /\ stdinLocked' = TRUE
    /\ stdoutLocked' = TRUE
    /\ Built(p, "ReadWriteHandle", "stdin_stdout", {"stdin", "stdout"}, {},
             "stdin", "stdout")
    /\ UNCHANGED <<bridgeVars, hres, attempt, nestVars>>

\* ReadWriteHandle::pipe_reader_writer.
ReadWriteHandle_pipe_reader_writer(p) ==
    /\ Built(p, "ReadWriteHandle", "pipe_reader_writer",
             {"pipe_reader", "pipe_writer"}, {}, "pipe_reader", "pipe_writer")
    /\ UNCHANGED <<bridgeVars, stdVars, nestVars>>

\* <<read_descriptor, write_descriptor>> of child_stdout_stdin in posish.rs.
posish_child_stdout_stdin == <<"child_stdout", "child_stdin">>

\* <<read_descriptor, write_descriptor>> of child_stdout_stdin in winx.rs:
\* both are Descriptor::raw_handle(child_stdout.as_raw_handle()).
winx_child_stdout_stdin == <<"child_stdout", "child_stdout">>

\* ReadWriteHandle::child_stdout_stdin.
ReadWriteHandle_child_stdout_stdin(p) ==
    LET d == IF p = "winx" THEN winx_child_stdout_stdin ELSE posish_child_stdout_stdin
    IN  /\ Built(p, "ReadWriteHandle", "child_stdout_stdin",
                 {"child_stdout", "child_stdin"}, {}, d[1], d[2])
        /\ UNCHANGED <<bridgeVars, stdVars, nestVars>>

\* ReadWriteHandle::interact_with_command: both child streams are taken into
\* locals, which are dropped at the return.
ReadWriteHandle_interact_with_command(p) ==
    /\ \/ Built(p, "ReadWriteHandle", "interact_with_command", {"child"},
                {"child_stdin", "child_stdout"}, "child_stdout", "child_stdin")
       \/ SpawnFailed("interact_with_command")
    /\ UNCHANGED <<bridgeVars, stdVars, nestVars>>

\* The objects of `dropped` are closed, each once more than before.
Close(dropped) ==
    /\ objects' = [o \in OsObjects |-> IF o \in dropped THEN "closed" ELSE objects[o]]
    /\ closes' = [o \in OsObjects |-> IF o \in dropped THEN closes[o] + 1 ELSE closes[o]]

\* As Owned_map_err, with the error wrapped into a new io::Error of kind
\* Other.
Owned_map_err_Wraps(e) == "Other"

\* map_err of a Handle whose Resource is not PipedThread: `_ => e`
\* (ReadHandle, WriteHandle), `match .. { _ => e }` (ReadWriteHandle).
Owned_map_err(e) == e

\* The null device takes every write whole, keeps nothing and does not fail.
Discards(d) == d = "dev_null"

\* One call on a descriptor whose Resource is not a thread bridge.  An open
\* object serves it, or the OS fails it; a write puts some of the buffer
\* into the object.  On a closed fd the OS answers EBADF, unless the number
\* has meanwhile been given to another open file, which then serves the
\* call.  flush is File::flush (TcpStream::flush): no system call, Ok.  An
\* error goes to map_err and what that returns is the call's result.
Descriptor_call(op, via, d) ==
    /\ \/ /\ objects[d] = "open" \/ op = "flush"
          /\ io' = [op |-> op, via |-> via, obj |-> d, saw |-> "Ok", res |-> "Ok"]
          /\ touched' = IF op = "flush" THEN touched ELSE touched \cup {<<op, d>>}
          /\ IF op = "write" /\ ~Discards(d)
             THEN \E bs \in Chunks : \E k \in 1..Len(bs) :
                     /\ Len(stored[d]) + k <= MaxLen
                     /\ stored' = [stored EXCEPT ![d] = @ \o SubSeq(bs, 1, k)]
             ELSE UNCHANGED stored
       \/ /\ objects[d] = "open"
          /\ op # "flush"
          /\ ~Discards(d)
          /\ \E e \in StreamErrors :
                io' = [op |-> op, via |-> via, obj |-> d, saw |-> e, res |-> Owned_map_err(e)]
          /\ UNCHANGED <<touched, stored>>
       \/ /\ objects[d] = "closed"
          /\ op # "flush"
          /\ io' = [op |-> op, via |-> via, obj |-> d, saw |-> "EBADF",
                    res |-> Owned_map_err("EBADF")]
          /\ UNCHANGED <<touched, stored>>
       \/ /\ objects[d] = "closed"
          /\ op # "flush"
          /\ io' = [op |-> op, via |-> via, obj |-> "foreign", saw |-> "Ok", res |-> "Ok"]
          /\ touched' = touched \cup {<<op, "foreign">>}
          /\ IF op = "write"
             THEN \E bs \in Chunks : \E k \in 1..Len(bs) :
                     /\ Len(stored["foreign"]) + k <= MaxLen
                     /\ stored' = [stored EXCEPT !["foreign"] = @ \o SubSeq(bs, 1, k)]
             ELSE UNCHANGED stored
    /\ UNCHANGED <<platform, kind, ctor, owned, read_descriptor, write_descriptor,
                   objects, closes, child_stdio>>

\* Read for ReadHandle: self.descriptor.read(buf).
ReadHandle_owned_read ==
    /\ kind = "ReadHandle"
    /\ Descriptor_call("read", "descriptor", read_descriptor)
    /\ UNCHANGED <<bridgeVars, stdVars, nestVars>>

\* Write for WriteHandle: self.descriptor.write(buf).
WriteHandle_owned_write ==
    /\ kind = "WriteHandle"
    /\ Descriptor_call("write", "descriptor", write_descriptor)
    /\ UNCHANGED <<bridgeVars, stdVars, nestVars>>

\* As WriteHandle_owned_flush, with flush's teardown done for every Resource:
\* what the Resource holds is dropped, which closes it.
WriteHandle_owned_flush_TearsDown ==
    /\ kind = "WriteHandle"
    /\ io' = [op |-> "flush", via |-> "descriptor", obj |-> write_descriptor,
              saw |-> "Ok", res |-> "Ok"]
    /\ Close(owned \ StdStreams)
    /\ UNCHANGED <<platform, kind, ctor, owned, read_descriptor, write_descriptor,
                   touched, stored, child_stdio>>
    /\ UNCHANGED <<bridgeVars, stdVars, nestVars>>

\* Write for WriteHandle: flush, the Resource not being PipedThread.
WriteHandle_owned_flush ==
    /\ kind = "WriteHandle"
    /\ Descriptor_call("flush", "descriptor", write_descriptor)
    /\ UNCHANGED <<bridgeVars, stdVars, nestVars>>

\* Read for ReadWriteHandle: self.read_descriptor.read(buf).
ReadWriteHandle_read ==
    /\ kind = "ReadWriteHandle"
    /\ Descriptor_call("read", "read_descriptor", read_descriptor)
    /\ UNCHANGED <<bridgeVars, stdVars, nestVars>>

\* Write for ReadWriteHandle: self.write_descriptor.write(buf).
ReadWriteHandle_write ==
    /\ kind = "ReadWriteHandle"
    /\ Descriptor_call("write", "write_descriptor", write_descriptor)
    /\ UNCHANGED <<bridgeVars, stdVars, nestVars>>

\* Write for ReadWriteHandle: self.write_descriptor.flush().
ReadWriteHandle_flush ==
    /\ kind = "ReadWriteHandle"
    /\ Descriptor_call("flush", "write_descriptor", write_descriptor)
    /\ UNCHANGED <<bridgeVars, stdVars, nestVars>>

\* As OwnedHandle_drop, with the descriptors plain Files instead of
\* ManuallyDrop<File>: dropping the Handle drops them too, and each closes
\* the fd it names.
OwnedHandle_drop_DescriptorCloses ==
    /\ kind \in {"ReadHandle", "WriteHandle", "ReadWriteHandle"}
    /\ kind' = "dropped"
    /\ LET named == {read_descriptor, write_descriptor} \ ({"none"} \cup StdStreams) IN
          /\ objects' = [o \in OsObjects |->
                            IF o \in (owned \ StdStreams) \cup named THEN "closed" ELSE objects[o]]
          /\ closes' = [o \in OsObjects |->
                            closes[o] + (IF o \in owned \ StdStreams THEN 1 ELSE 0)
                                      + (IF o \in named THEN 1 ELSE 0)]
    /\ IF "stdin" \in owned THEN StdinLocker_drop ELSE UNCHANGED stdinLocked
    /\ IF "stdout" \in owned THEN StdoutLocker_drop ELSE UNCHANGED stdoutLocked
    /\ io' = [op |-> "drop", via |-> "none", obj |-> "none", saw |-> "Ok", res |-> "Ok"]
    /\ UNCHANGED <<platform, ctor, owned, read_descriptor, write_descriptor, touched,
                   stored, child_stdio>>
    /\ UNCHANGED <<bridgeVars, hres, attempt, nestVars>>

\* Drop of a Handle whose Resource is not a thread bridge: Drop for
\* *Resources does nothing (`_ => {}`), then the variant's fields are
\* dropped, closing the objects they own and releasing the tokens.  The
\* descriptors are ManuallyDrop and close nothing.
OwnedHandle_drop ==
    /\ kind \in {"ReadHandle", "WriteHandle", "ReadWriteHandle"}
    /\ kind' = "dropped"
    /\ Close(owned \ StdStreams)
    /\ IF "stdin" \in owned THEN StdinLocker_drop ELSE UNCHANGED stdinLocked
    /\ IF "stdout" \in owned THEN StdoutLocker_drop ELSE UNCHANGED stdoutLocked
    /\ io' = [op |-> "drop", via |-> "none", obj |-> "none", saw |-> "Ok", res |-> "Ok"]
    /\ UNCHANGED <<platform, ctor, owned, read_descriptor, write_descriptor, touched,
                   stored, child_stdio>>
    /\ UNCHANGED <<bridgeVars, hres, attempt, nestVars>>

OwnedNext ==
    \/ \E p \in Platforms :
          \/ \E o \in DOMAIN ReadOwned : ReadHandle_owned(p, o)
          \/ ReadHandle_stdin_fd(p)
          \/ ReadHandle_read_from_command(p)
          \/ \E o \in DOMAIN WriteOwned : WriteHandle_owned(p, o)
          \/ WriteHandle_null(p)
          \/ WriteHandle_stdout_fd(p)
          \/ WriteHandle_write_to_command(p)
          \/ \E o \in DOMAIN ReadWriteOwned : ReadWriteHandle_owned(p, o)
          \/ ReadWriteHandle_stdin_stdout_fds(p)
          \/ ReadWriteHandle_pipe_reader_writer(p)
          \/ ReadWriteHandle_child_stdout_stdin(p)
          \/ ReadWriteHandle_interact_with_command(p)
    \/ ReadHandle_owned_read
    \/ WriteHandle_owned_write
    \/ WriteHandle_owned_flush
    \/ ReadWriteHandle_read
    \/ ReadWriteHandle_write
    \/ ReadWriteHandle_flush
    \/ OwnedHandle_drop

SpecOwned == Init /\ [][OwnedNext]_vars

\* The Handle of the ownership model is live.
Live == kind \in {"ReadHandle", "WriteHandle", "ReadWriteHandle"}

\* The descriptors the Handle has.
Named == {read_descriptor, write_descriptor} \ {"none"}

\* The constructors that take an open OS object or a standard-stream token.
TakesOpenObject ==
    DOMAIN ReadOwned \cup DOMAIN WriteOwned \cup DOMAIN ReadWriteOwned
        \cup {"stdin", "stdout", "stdin_stdout", "pipe_reader_writer", "child_stdout_stdin"}

\* C13: while a Handle built from an already-open OS object or a
\* standard-stream token is live, every descriptor it has names an object
\* its Resource holds, that object is open, and nothing has closed it.
C13_DescriptorNamesOwnedOpenObject ==
    (Live /\ ctor \in TakesOpenObject) =>
        \A d \in Named :
            /\ d \in owned
            /\ objects[d] = "open"
            /\ closes[d] = 0

\* A ReadHandle over a pipe reader has been read from and is still live.
C13_Witness ==
    /\ kind = "ReadHandle"
    /\ ctor = "pipe_reader"
    /\ <<"read", "pipe_reader">> \in touched
    /\ objects["pipe_reader"] = "open"

\* C14: while a Handle built by a command-spawning constructor is live, its
\* Resource holds the child process object and the child stream each
\* descriptor names, and that stream is open.
C14_CommandStreamStaysOpen ==
    (Live /\ ctor \in CommandConstructors) =>
        /\ "child" \in owned
        /\ \A d \in Named : d \in owned /\ objects[d] = "open"

\* The object each descriptor of a two-object ReadWriteHandle is to name.
ReadSide ==
    [stdin_stdout |-> "stdin", pipe_reader_writer |-> "pipe_reader",
     child_stdout_stdin |-> "child_stdout", interact_with_command |-> "child_stdout"]

WriteSide ==
    [stdin_stdout |-> "stdout", pipe_reader_writer |-> "pipe_writer",
     child_stdout_stdin |-> "child_stdin", interact_with_command |-> "child_stdin"]

\* C20: on a ReadWriteHandle a read goes through the read descriptor and a
\* write or flush through the write descriptor, and a two-object constructor
\* leaves the read descriptor naming the read-side object and the write
\* descriptor the write-side object, on both platforms.
C20_EachDirectionItsDescriptor ==
    kind = "ReadWriteHandle" =>
        /\ io.op = "read" => io.via = "read_descriptor"
        /\ io.op \in {"write", "flush"} => io.via = "write_descriptor"
        /\ ctor \in DOMAIN ReadSide =>
              /\ read_descriptor = ReadSide[ctor]
              /\ write_descriptor = WriteSide[ctor]

\* The last call on the Handle was a read, write or flush.
IoCall == io.op \in {"read", "write", "flush"}

\* What the Handle is made of: its descriptors, its Resource and the state
\* of every OS object.
HandleState == <<kind, ctor, owned, read_descriptor, write_descriptor, objects, closes>>

\* C21: on a Handle that is not a thread bridge, an error of the descriptor
\* operation is the error the call returns, and the failing call leaves the
\* Handle's descriptors, its Resource and the OS objects as they were.
C21_ErrorReturnedUnchanged ==
    /\ []((Live /\ IoCall /\ io.saw # "Ok") => io.res = io.saw)
    /\ [][(Live /\ io' # io /\ io'.op \in {"read", "write", "flush"} /\ io'.saw # "Ok") =>
             UNCHANGED <<HandleState, stored, touched>>]_vars

\* A write on a ReadWriteHandle over an open socket failed with the OS's
\* error.
C21_Witness ==
    /\ kind = "ReadWriteHandle"
    /\ ctor = "tcp_stream"
    /\ io.op = "write"
    /\ io.saw = "ENOSPC"
    /\ io.res = "ENOSPC"
    /\ objects["tcp_stream"] = "open"

\* C22: on the Handle WriteHandle::null() returned, every write and flush
\* succeeds, and nothing outside the Handle changes: no object has taken a
\* byte, and no object but the null device the Handle opened was opened or
\* closed.
C22_NullSinkSucceedsAndDiscards ==
    (ctor = "null" /\ kind \in {"WriteHandle", "dropped"}) =>
        /\ io.res = "Ok"
        /\ \A o \in Reachable : stored[o] = <<>>
        /\ \A o \in OsObjects \ {"dev_null"} :
              /\ closes[o] = 0
              /\ objects[o] = IF o \in StdStreams THEN "open" ELSE "absent"
        /\ touched \subseteq {<<"write", "dev_null">>}

\* The null Handle has been written to and then flushed.
C22_Witness ==
    /\ ctor = "null"
    /\ kind = "WriteHandle"
    /\ io.op = "flush"
    /\ io.res = "Ok"
    /\ <<"write", "dev_null">> \in touched

\* C26: each command-spawning constructor starts the child with the streams
\* it serves piped and the child's other standard streams suppressed;
\* read_from_command: stdout piped, stdin and stderr null; write_to_command:
\* stdin piped, stdout and stderr null.
C26_OtherChildStreamsSuppressed ==
    /\ (Live /\ ctor = "read_from_command") =>
          child_stdio = [stdin |-> "null", stdout |-> "piped", stderr |-> "null"]
    /\ (Live /\ ctor = "write_to_command") =>
          child_stdio = [stdin |-> "piped", stdout |-> "null", stderr |-> "null"]
    /\ (Live /\ ctor = "interact_with_command") =>
          child_stdio = [stdin |-> "piped", stdout |-> "piped", stderr |-> "null"]

\* C27: flush on a WriteHandle that is not a thread bridge, and on any
\* ReadWriteHandle, returns Ok and leaves the descriptors, the Resource and
\* every OS object as they were: it closes nothing and no thread is spawned
\* or joined.
C27_FlushOnlyFlushesDescriptor ==
    /\ []((Live /\ io.op = "flush") => (io.res = "Ok" /\ threads = 0))
    /\ [][(Live /\ io'.op = "flush") =>
             UNCHANGED <<HandleState, stored, touched, threads, pipeVars>>]_vars

\* A WriteHandle over a pipe writer was written to and then flushed; the
\* pipe writer is still open.
C27_Witness ==
    /\ kind = "WriteHandle"
    /\ ctor = "pipe_writer"
    /\ io.op = "flush"
    /\ stored["pipe_writer"] # <<>>
    /\ objects["pipe_writer"] = "open"
    /\ closes["pipe_writer"] = 0

(***************************************************************************)
(* One Handle of any kind: a thread bridge, or a Handle around OS objects. *)
(***************************************************************************)
HandlesNext ==
    \/ kind = "none" /\ Next
    \/ handle = "unbuilt" /\ fop = "none" /\ OwnedNext

SpecHandles == Init /\ [][HandlesNext]_vars

\* The step drops the pipe writer of the bridge: the foreground takes the
\* state of a WriteHandle, or the worker of a ReadHandle returns.
DropsPipeWriter ==
    \/ /\ handle = "WriteHandle"
       /\ fpc' \in {"map_err_join", "flush_join", "drop_join"}
       /\ fpc' # fpc
    \/ /\ handle = "ReadHandle"
       /\ wpc' = "done"
       /\ wpc # "done"

\* The step drops the pipe reader of the bridge.
DropsPipeReader ==
    \/ /\ handle = "ReadHandle"
       /\ fpc' \in {"map_err_join", "drop_join"}
       /\ fpc' # fpc
    \/ /\ handle = "ReadHandle"
       /\ resources = "PipeReader"
       /\ fpc' = "dropped"
       /\ fpc # "dropped"
    \/ /\ handle = "WriteHandle"
       /\ wpc' = "done"
       /\ wpc # "done"

\* The step makes the pipe of a new bridge (or of the bytes fast path).
MakesPipe ==
    \/ wpc' = "copy_read" /\ wpc \in {"none", "done"}
    \/ resources' = "PipeReader" /\ resources = "none"

\* C15: every OS object given to or made by a Handle is closed exactly once:
\* no object is ever closed twice, each point of read, write, flush, error
\* surfacing and drop that releases a pipe end finds it open and closes it,
\* a flush makes the new pipe only after both ends of the old one are
\* closed, and when the Handle has been dropped none of its objects is open.
C15_ClosedExactlyOnce ==
    /\ [](\A o \in OsObjects \ StdStreams :
            /\ closes[o] <= 1
            /\ objects[o] = "closed" <=> closes[o] = 1
            /\ kind = "dropped" => objects[o] # "open")
    /\ [](DropEnded => (~pipeReaderOpen /\ ~pipeWriterOpen))
    /\ [][/\ DropsPipeWriter => (pipeWriterOpen /\ ~pipeWriterOpen')
          /\ DropsPipeReader => (pipeReaderOpen /\ ~pipeReaderOpen')
          /\ MakesPipe => (~pipeReaderOpen /\ ~pipeWriterOpen)]_vars

\* A bridged WriteHandle was flushed, later returned its worker's error from
\* a write, and has been dropped.
C15_Witness ==
    /\ handle = "WriteHandle"
    /\ fpc = "dropped"
    /\ flushMarks # {}
    /\ returned \cap StreamErrors # {}
    /\ ~pipeReaderOpen
    /\ ~pipeWriterOpen

(***************************************************************************)
(* Nested bridging: WriteHandle::piped_thread(Box::new(inner)) where inner *)
(* is itself a WriteHandle::piped_thread over the sink.  Bridge 1 is the   *)
(* outermost Handle, bridge `depth` the one whose boxed Write is the sink; *)
(* the boxed Write of the worker of bridge l < depth is the Handle of      *)
(* bridge l + 1, so that worker is the caller of that Handle's write and   *)
(* flush, as the foreground (caller 0) is of the outermost one's.  Here    *)
(* pipe() and spawn succeed and the sink does not fail; what a failing     *)
(* bridge does is in the one-level model.                                  *)
(***************************************************************************)
\* The bridge of Handle l is built: a new pipe and a worker in copy.
NestedSpawn(l) ==
    /\ nPipe' = [nPipe EXCEPT ![l] = <<>>]
    /\ nWriterOpen' = [nWriterOpen EXCEPT ![l] = TRUE]
    /\ nState' = [nState EXCEPT ![l] = "Some"]

\* WriteHandle::piped_thread, d deep: the innermost Handle is built first.
Nested_piped_thread ==
    /\ depth = 0
    /\ \E d \in Levels :
          /\ depth' = d
          /\ nPipe' = [l \in Levels |-> <<>>]
          /\ nWriterOpen' = [l \in Levels |-> l <= d]
          /\ nState' = [l \in Levels |-> IF l <= d THEN "Some" ELSE "None"]
          /\ nPc' = [c \in 0..MaxDepth |->
                        IF c = 0 THEN "idle" ELSE IF c <= d THEN "copy_read" ELSE "none"]
    /\ nOp' = "piped_thread"
    /\ UNCHANGED <<nBuf, nSink, nSinkFlushedLen, nWritten>>
    /\ UNCHANGED <<bridgeVars, stdVars, ownVars>>

\* The foreground's write on the outermost Handle: the pipe takes some of
\* the buffer.
Nested_write ==
    /\ depth > 0
    /\ nPc[0] = "idle"
    /\ nState[1] = "Some"
    /\ \E bs \in Chunks :
          \E k \in 1..Min(Len(bs), PipeCapacity - Len(nPipe[1])) :
              /\ Len(nWritten) + k <= MaxLen
              /\ nPipe' = [nPipe EXCEPT ![1] = @ \o SubSeq(bs, 1, k)]
              /\ nWritten' = nWritten \o SubSeq(bs, 1, k)
    /\ nOp' = "write"
    /\ UNCHANGED <<depth, nPc, nState, nWriterOpen, nBuf, nSink, nSinkFlushedLen>>
    /\ UNCHANGED <<bridgeVars, stdVars, ownVars>>

\* copy's read of the pipe of bridge l.
NestedWorker_copy_read(l) ==
    /\ nPc[l] = "copy_read"
    /\ \/ /\ nPipe[l] # <<>>
          /\ \E k \in 1..Min(Len(nPipe[l]), MaxChunk) :
                /\ nBuf' = [nBuf EXCEPT ![l] = SubSeq(nPipe[l], 1, k)]
                /\ nPipe' = [nPipe EXCEPT ![l] = Drop1(@, k)]
          /\ nPc' = [nPc EXCEPT ![l] = "copy_write"]
       \/ /\ nPipe[l] = <<>>
          /\ ~nWriterOpen[l]
          /\ nPc' = [nPc EXCEPT ![l] = "flush"]
          /\ UNCHANGED <<nBuf, nPipe>>
    /\ UNCHANGED <<depth, nState, nWriterOpen, nSink, nSinkFlushedLen, nWritten, nOp>>
    /\ UNCHANGED <<bridgeVars, stdVars, ownVars>>

\* copy's write_all into the boxed Write of worker l, one write call per
\* step: the sink, or the Handle of bridge l + 1, whose write puts the bytes
\* into its pipe and blocks while that is full.
NestedWorker_copy_write(l) ==
    /\ nPc[l] = "copy_write"
    /\ IF l = depth
       THEN /\ \E k \in 1..Len(nBuf[l]) :
                  /\ nSink' = nSink \o SubSeq(nBuf[l], 1, k)
                  /\ nBuf' = [nBuf EXCEPT ![l] = Drop1(@, k)]
                  /\ nPc' = [nPc EXCEPT ![l] =
                                IF k = Len(nBuf[l]) THEN "copy_read" ELSE "copy_write"]
            /\ UNCHANGED nPipe
       ELSE /\ nState[l + 1] = "Some"
            /\ \E k \in 1..Min(Len(nBuf[l]), PipeCapacity - Len(nPipe[l + 1])) :
                  /\ nPipe' = [nPipe EXCEPT ![l + 1] = @ \o SubSeq(nBuf[l], 1, k)]
                  /\ nBuf' = [nBuf EXCEPT ![l] = Drop1(@, k)]
                  /\ nPc' = [nPc EXCEPT ![l] =
                                IF k = Len(nBuf[l]) THEN "copy_read" ELSE "copy_write"]
            /\ UNCHANGED nSink
    /\ UNCHANGED <<depth, nState, nWriterOpen, nSinkFlushedLen, nWritten, nOp>>
    /\ UNCHANGED <<bridgeVars, stdVars, ownVars>>

\* As Nested_flush, without drop(pipe_writer): the caller waits in join
\* while the write end of the pipe its worker reads stays open.
Nested_flush_KeepsWriter(c) ==
    /\ c < depth
    /\ nPc[c] = IF c = 0 THEN "idle" ELSE "flush"
    /\ nState[c + 1] = "Some"
    /\ nState' = [nState EXCEPT ![c + 1] = "None"]
    /\ nPc' = [nPc EXCEPT ![c] = "flush_join"]
    /\ UNCHANGED <<depth, nPipe, nWriterOpen, nBuf, nSink, nSinkFlushedLen, nWritten, nOp>>
    /\ UNCHANGED <<bridgeVars, stdVars, ownVars>>

\* WriteHandle::flush of Handle c + 1, called by c: take().unwrap(),
\* drop(pipe_writer); the caller then waits in join.
Nested_flush(c) ==
    /\ c < depth
    /\ nPc[c] = IF c = 0 THEN "idle" ELSE "flush"
    /\ nState[c + 1] = "Some"
    /\ nState' = [nState EXCEPT ![c + 1] = "None"]
    /\ nWriterOpen' = [nWriterOpen EXCEPT ![c + 1] = FALSE]
    /\ nPc' = [nPc EXCEPT ![c] = "flush_join"]
    /\ UNCHANGED <<depth, nPipe, nBuf, nSink, nSinkFlushedLen, nWritten, nOp>>
    /\ UNCHANGED <<bridgeVars, stdVars, ownVars>>

\* As Nested_flush_join, for a worker whose closure ends with Ok(boxed_write)
\* without boxed_write.flush(): it returns while the Handle it wraps still
\* has bytes under way.
Nested_flush_join_WorkerSkipsFlush(c) ==
    /\ c < depth
    /\ \/ /\ nPc[c] = "flush_join"
          /\ nPc[c + 1] = "done"
          /\ NestedSpawn(c + 1)
          /\ nPc' = [nPc EXCEPT ![c] = IF c = 0 THEN "idle" ELSE "done",
                                ![c + 1] = "copy_read"]
          /\ nOp' = IF c = 0 THEN "flush" ELSE nOp
       \/ /\ c > 0
          /\ nPc[c] = "flush"
          /\ nPc' = [nPc EXCEPT ![c] = "done"]
          /\ UNCHANGED <<nPipe, nWriterOpen, nState, nOp>>
    /\ UNCHANGED <<depth, nBuf, nSink, nSinkFlushedLen, nWritten>>
    /\ UNCHANGED <<bridgeVars, stdVars, ownVars>>

\* join_handle.join().unwrap().unwrap(); *self = Self::piped_thread(boxed_write)?
\* The flush called by the foreground returns Ok(()); the one called by a
\* worker was the last statement before its Ok(boxed_write).
Nested_flush_join(c) ==
    /\ c < depth
    /\ nPc[c] = "flush_join"
    /\ nPc[c + 1] = "done"
    /\ NestedSpawn(c + 1)
    /\ nPc' = [nPc EXCEPT ![c] = IF c = 0 THEN "idle" ELSE "done",
                          ![c + 1] = "copy_read"]
    /\ nOp' = IF c = 0 THEN "flush" ELSE nOp
    /\ UNCHANGED <<depth, nBuf, nSink, nSinkFlushedLen, nWritten>>
    /\ UNCHANGED <<bridgeVars, stdVars, ownVars>>

\* boxed_write.flush()? of the innermost worker: the sink's flush.
NestedWorker_flush_sink ==
    /\ depth > 0
    /\ nPc[depth] = "flush"
    /\ nSinkFlushedLen' = Len(nSink)
    /\ nPc' = [nPc EXCEPT ![depth] = "done"]
    /\ UNCHANGED <<depth, nState, nPipe, nWriterOpen, nBuf, nSink, nWritten, nOp>>
    /\ UNCHANGED <<bridgeVars, stdVars, ownVars>>

NestedNext ==
    \/ Nested_piped_thread
    \/ Nested_write
    \/ \E l \in Levels : NestedWorker_copy_read(l)
    \/ \E l \in Levels : NestedWorker_copy_write(l)
    \/ \E c \in 0..MaxDepth : Nested_flush(c)
    \/ \E c \in 0..MaxDepth : Nested_flush_join(c)
    \/ NestedWorker_flush_sink

SpecNested == Init /\ [][NestedNext]_vars

\* flush() on the outermost Handle has just returned Ok(()).
NestedFlushReturnedOk == depth > 0 /\ nPc[0] = "idle" /\ nOp = "flush"

\* C17: when the flush of the outermost Handle returns, the sink holds
\* exactly the bytes written to that Handle and has been flushed, and no
\* pipe or worker of any nested bridge holds a byte; this is so two bridges
\* deep as it is with one, so both leave the sink with the same content.
C17_NestedFlushDrainsAll ==
    NestedFlushReturnedOk =>
        /\ nSink = nWritten
        /\ nSinkFlushedLen = Len(nSink)
        /\ \A l \in Levels : nPipe[l] = <<>> /\ nBuf[l] = <<>>
        /\ \A l \in 1..depth : nState[l] = "Some" /\ nPc[l] = "copy_read"

\* Two bridges deep, a flush has returned after MaxLen bytes were written.
C17_Witness ==
    /\ NestedFlushReturnedOk
    /\ depth = MaxDepth
    /\ Len(nWritten) = MaxLen
    /\ nSink = nWritten

(***************************************************************************)
(* The one-level bridge (whose sink and source may fail) and the nested    *)
(* bridges side by side, with the fairness of their threads: every worker  *)
(* is an OS thread of its own and takes a step it can take, and a call     *)
(* that waits in join continues once the worker has ended.                 *)
(***************************************************************************)
BridgesNext ==
    \/ (depth = 0 /\ Next)
    \/ (handle = "unbuilt" /\ fop = "none" /\ NestedNext)

\* The steps of the worker thread of bridge l: its copy loop, and its
\* boxed_write.flush(), which is the sink's flush or the flush of Handle l + 1.
NestedWorkerNext(l) ==
    \/ NestedWorker_copy_read(l)
    \/ NestedWorker_copy_write(l)
    \/ Nested_flush(l)
    \/ Nested_flush_join(l)
    \/ (l = depth /\ NestedWorker_flush_sink)

FairSpecBridges ==
    /\ Init
    /\ [][BridgesNext]_vars
    /\ WF_vars(WorkerNext)
    /\ WF_vars(ForegroundContinue)
    /\ WF_vars(Nested_flush_join(0))
    /\ \A l \in Levels : WF_vars(NestedWorkerNext(l))

\* C24: flush() on a bridged WriteHandle ends: a flush that waits in join
\* stops waiting, over a sink that does not fail it returns to its caller,
\* and so it is with the sink a bridged WriteHandle, for the foreground's
\* flush as for the flush a worker calls on the Handle it wraps.
C24_FlushAlwaysEnds ==
    /\ (fpc = "flush_join") ~> (fpc # "flush_join")
    /\ (fpc = "flush_join" /\ ~faulty) ~> (fpc = "idle" /\ fop = "flush")
    /\ \A c \in 0..(MaxDepth - 1) : (nPc[c] = "flush_join") ~> (nPc[c] # "flush_join")
    /\ (nPc[0] = "flush_join") ~> NestedFlushReturnedOk

\* flush was called on the outermost of MaxDepth bridges with its pipe full
\* and its worker holding more bytes for the Handle below.
C24_Witness ==
    /\ depth = MaxDepth
    /\ nPc[0] = "flush_join"
    /\ Len(nPipe[1]) = PipeCapacity
    /\ nBuf[1] # <<>>

=============================================================================
